---- MODULE Spec2Model ----
(***************************************************************************)
(* A model of the radiantearth python client: the paginated collectors of  *)
(* radiantearth/api.py and radiantearth/models/project.py, the AOI         *)
(* coverage accumulator API.fill_aoi, the datasource specific metadata     *)
(* helpers, API.get_scenes, API.__init__ and the Project methods           *)
(* create_export, get_thumbnail, set_scene_order, add_ordered_scenes,      *)
(* get_image_source_uris and those behind check_notebook, and two          *)
(* invocations of fill_aoi or of a collector whose steps interleave, and   *)
(* Project.get_center.                                                     *)
(*                                                                         *)
(* Each subsystem has its own specification (SpecCollect, SpecFill, ...).  *)
(* The variables of the subsystems a specification does not exercise stay  *)
(* at their idle values.                                                   *)
(***************************************************************************)
EXTENDS Integers, Sequences, FiniteSets, TLC

VARIABLES
    \* ---- paginated collection (api.py 103-190, project.py 372-397)
    endpoint,     \* which collector runs
    dict_out,     \* API.projects' dict_out argument
    nPages,       \* the number of pages the backend holds
    c_pc,         \* "off" | "loop" | "done" | "raised"
    has_next,     \* the loop's has_next local
    page,         \* the loop's page local
    acc,          \* the loop's accumulator list
    c_out,        \* what the collector handed to its caller
    fetches,      \* number of page fetches issued so far
    requested,    \* the page indices requested, in order
    reported,     \* the index and hasNext of each page returned, in order
    skewed,       \* TRUE once a page reported an index other than the one asked
    served,       \* the raw items the backend has served, in order
    failedAt,     \* 0, or the number of the fetch that failed
    failure,      \* "none", or the exception the failing fetch raised
    \* ---- API.fill_aoi (api.py 427-461)
    results,           \* the scene list passed in
    aoi_polygon,       \* the area of interest
    datasource_id,     \* the expected datasource id
    f_pc,              \* "off" | "loop" | "done" | "raised"
    f_i,               \* number of scenes the for loop has taken
    scene_boundaries,  \* the footprints appended so far
    scene_ids,         \* the ids appended so far
    f_out,             \* what fill_aoi handed to its caller
    unions,            \* number of cascaded_union calls made
    \* ---- API.convert_date_isoformat (api.py 379-394)
    datestring,   \* the argument, a string as its sequence of characters
    d_pc,         \* "off" | "call" | "done"
    d_out,        \* what convert_date_isoformat handed to its caller
    \* ---- API.get_cloud_cover, API.get_timestamp (api.py 353-425)
    scene,        \* the scene passed in
    m_op,         \* "none", or the helper that was called
    m_out,        \* what the helper handed to its caller
    \* ---- API.get_scenes (api.py 272-322)
    g_args,       \* the arguments of the call
    g_pc,         \* "off" | "call" | "done"
    g_out,        \* what get_scenes handed to its caller
    g_request,    \* the requests sent to the scenes endpoint, in order
    \* ---- Project.create_export (project.py 211-289)
    coordinates,  \* the coordinates argument
    resolution,   \* the resolution argument
    e_pc,         \* "off" | "call" | "done"
    e_out,        \* what create_export handed to its caller
    e_posted,     \* the export bodies posted, in order
    \* ---- Project.get_thumbnail, geotiff, png (project.py 180-209, 317-345)
    t_call,       \* the method called and its export_format and raw arguments
    t_pc,         \* "off" | "call" | "done"
    t_status,     \* the status code of the response, 0 when there is none
    t_out,        \* what the method handed to its caller
    t_sent,       \* the requests sent to the export endpoint, in order
    \* ---- API.__init__, API.get_api_token (api.py 42-101)
    a_args,       \* refresh_token, api_token, host and scheme of the call
    a_pc,         \* "off" | "call" | "done"
    a_out,        \* how the constructor ended
    a_api_token,  \* self.api_token
    a_tile_host,  \* self.tile_host
    a_headers,    \* self.http.session.headers
    a_exchanges,  \* the refresh tokens posted to the token endpoint, in order
    a_obtained,   \* the id_token the token endpoint answered with
    \* ---- Project.add_scenes, set_scene_order, add_ordered_scenes
    \*      (project.py 92-145)
    o_method,     \* "none" | "set_scene_order" | "add_ordered_scenes"
    sceneIDs,     \* the sceneIDs argument
    p_scenes,     \* the ids of the scenes in the project, on the platform
    p_order,      \* the scene order of the project, on the platform
    o_pc,         \* "off" | "add" | "order" | "done"
    o_out,        \* how the method ended
    o_calls,      \* the requests sent to the platform, in order
    \* ---- check_notebook and the methods it gates (project.py 456-503,
    \*      tests/test_notebook_check.py)
    NOTEBOOK_SUPPORT,  \* the flag of radiantearth.decorators
    n_call,       \* the wrapped function called and its arguments
    n_pc,         \* "off" | "call" | "done"
    n_ran,        \* number of times the wrapped function's body ran
    n_out,        \* what the call handed to its caller
    \* ---- Project.get_ordered_scene_ids, get_image_source_uris
    \*      (project.py 399-426)
    u_scenes,     \* the scenes get_scenes() returns for the project
    u_pc,         \* "off" | "call" | "done"
    u_out,        \* what get_image_source_uris handed to its caller
    \* ---- two invocations of fill_aoi or of an api.py collector whose
    \*      steps interleave (api.py 103-190, 427-461)
    i_calls,      \* per invocation: the operation called and its arguments
    i_pc,         \* per invocation: "called" | "loop" | "done" | "raised"
    i_pos,        \* per invocation: scenes the for loop of fill_aoi has taken
    i_frames,     \* per frame: the locals scene_boundaries, scene_ids, the
                  \* accumulator list, page and has_next
    i_out,        \* per invocation: what it handed to its caller
    i_touched,    \* per frame: the invocations that read or wrote its locals
    i_last,       \* 0, or the invocation that took the last step
    i_alternated, \* TRUE once an invocation stepped, the other stepped, and
                  \* the first stepped again
    \* ---- Project.get_center (project.py 147-165)
    extent,       \* self._project.extent
    gc_pc,        \* "off" | "call" | "done"
    gc_out        \* what get_center handed to its caller

collectVars == <<endpoint, dict_out, nPages, c_pc, has_next, page, acc, c_out,
                 fetches, requested, reported, skewed, served, failedAt,
                 failure>>

fillVars == <<results, aoi_polygon, datasource_id, f_pc, f_i,
              scene_boundaries, scene_ids, f_out, unions>>

dateVars == <<datestring, d_pc, d_out>>

sceneVars == <<scene, m_op, m_out>>

getScenesVars == <<g_args, g_pc, g_out, g_request>>

exportVars == <<coordinates, resolution, e_pc, e_out, e_posted>>

thumbnailVars == <<t_call, t_pc, t_status, t_out, t_sent>>

apiVars == <<a_args, a_pc, a_out, a_api_token, a_tile_host, a_headers,
             a_exchanges, a_obtained>>

orderVars == <<o_method, sceneIDs, p_scenes, p_order, o_pc, o_out, o_calls>>

notebookVars == <<NOTEBOOK_SUPPORT, n_call, n_pc, n_ran, n_out>>

urisVars == <<u_scenes, u_pc, u_out>>

isolationVars == <<i_calls, i_pc, i_pos, i_frames, i_out, i_touched, i_last,
                   i_alternated>>

centerVars == <<extent, gc_pc, gc_out>>

vars == <<collectVars, fillVars, dateVars, sceneVars, getScenesVars,
          exportVars, thumbnailVars, apiVars, orderVars, notebookVars,
          urisVars, isolationVars, centerVars>>

----------------------------------------------------------------------------
(* Python values shared by the subsystems *)

\* The greatest element of a non-empty set of integers (python's max).
SetMax(S) == CHOOSE x \in S : \A y \in S : y <= x

\* The least element of a non-empty set of integers.
SetMin(S) == CHOOSE x \in S : \A y \in S : x <= y

----------------------------------------------------------------------------
(* Paginated collection *)

\* bounds of the backend
MaxPages == 3
MaxPageLen == 2
NumIds == 2
NumRevs == 2
MaxSkew == 1

\* Item records as the platform serves them.  Id 1 exists in NumRevs
\* revisions (a record edited between two page fetches shows up twice),
\* the other ids in one.
Items == {it \in [id : 1..NumIds, rev : 1..NumRevs] : it.id = 1 \/ it.rev = 1}

\* The item lists of one page: a page never lists an id twice.
ItemSeqs ==
    {s \in UNION {[1..n -> Items] : n \in 0..MaxPageLen} :
        \A i, j \in DOMAIN s : s[i].id = s[j].id => i = j}

Failures == {"HTTPError", "ConnectionError"}

\* The collectors: the four loops of api.py and the two of project.py that
\* go through utils.get_all_paginated.
ApiEndpoints == {"map_tokens", "projects", "analyses", "exports"}
ProjectEndpoints == {"project_scenes", "project_annotations"}
Endpoints == ApiEndpoints \cup ProjectEndpoints

\* The field of a page that holds its items.
ListField(ep) == IF ep = "project_annotations" THEN "features" ELSE "results"

\* The page the backend returns for request index p: its items under
\* `field`, the index it reports (the requested one plus the skew of a
\* backend that numbers pages differently) and whether more pages follow.
\* Past the last page the backend returns an empty final page.
ServerPage(p, field, items, skew) ==
    [field   |-> field,
     items   |-> IF p < nPages THEN items ELSE <<>>,
     page    |-> p + skew,
     hasNext |-> p < nPages - 1]

\* The model classes the api.py loops wrap each item in.
ModelClass(ep) ==
    CASE ep = "map_tokens" -> "MapToken"
      [] ep = "projects"   -> "Project"
      [] ep = "analyses"   -> "Analysis"
      [] ep = "exports"    -> "Export"

\* MapToken(map_token, self), Project(project, self), ...: the model
\* object keeps the generated record and the api.
WrapModel(cls, item) == [cls |-> cls, raw |-> item, api |-> "self"]

\* The record a wrapped element stands for.
RawOf(x) == x.raw

WrapAllDropFirst(cls, items) ==
    [i \in 1..(Len(items) - 1) |-> WrapModel(cls, items[i + 1])]

\* `for project in paginated_projects.results: projects.append(Project(...))`
WrapAll(cls, items) == [i \in 1..Len(items) |-> WrapModel(cls, items[i])]

NextPageLocalCounter(pg, resp) == pg + 1

\* `page = paginated_projects.page + 1`
NextPage(pg, resp) == resp.page + 1

\* `paginated_projects.results`
Results(resp) == IF resp.field = "results" THEN resp.items ELSE <<>>

\* utils.get_all_paginated(get_page, list_field): the items of a page are
\* read from the named field and appended as they are.
GetAllPaginatedItems(resp, list_field) ==
    IF resp.field = list_field THEN resp.items ELSE <<>>

\* What one loop iteration appends to the accumulator.
Collected(ep, resp) ==
    IF ep \in ApiEndpoints
    THEN WrapAll(ModelClass(ep), Results(resp))
    ELSE GetAllPaginatedItems(resp, ListField(ep))

\* d[k] = v on a python dict, kept as its entries in insertion order: a
\* new key is appended, an existing key keeps its place and takes v.
DictPut(d, k, v) ==
    IF \E i \in DOMAIN d : d[i].key = k
    THEN [i \in DOMAIN d |-> IF d[i].key = k THEN [key |-> k, value |-> v]
                                             ELSE d[i]]
    ELSE Append(d, [key |-> k, value |-> v])

RECURSIVE DictFrom(_, _)
DictFrom(d, projects) ==
    IF projects = <<>> THEN d
    ELSE DictFrom(DictPut(d, Head(projects).raw.id, Head(projects)),
                  Tail(projects))

\* `{project.id: project for project in projects}`
DictById(projects) == DictFrom(<<>>, projects)

ReturnList(xs) == [kind |-> "list", items |-> xs, map |-> <<>>, exc |-> "none"]
ReturnDict(m) == [kind |-> "dict", items |-> <<>>, map |-> m, exc |-> "none"]
Raised(e) == [kind |-> "raise", items |-> <<>>, map |-> <<>>, exc |-> e]
NoOutcome == [kind |-> "none", items |-> <<>>, map |-> <<>>, exc |-> "none"]

\* The value a collector returns once its loop has ended.
CollectorResult(ep, dout, xs) ==
    IF ep = "projects" /\ dout THEN ReturnDict(DictById(xs)) ELSE ReturnList(xs)

SwallowFetchError(e, xs) == ReturnList(xs)

\* A failing `.result()` is not caught by any collector: the exception
\* leaves the loop and the collector.
OnFetchError(e, xs) == Raised(e)

CollectIdle ==
    /\ endpoint = "none" /\ dict_out = FALSE /\ nPages = 0
    /\ c_pc = "off" /\ has_next = FALSE /\ page = 0 /\ acc = <<>>
    /\ c_out = NoOutcome /\ fetches = 0 /\ requested = <<>>
    /\ reported = <<>>
    /\ skewed = FALSE /\ served = <<>> /\ failedAt = 0 /\ failure = "none"

\* A collector has been called: has_next = True, page = 0, the empty list.
CollectInit ==
    /\ endpoint \in Endpoints
    /\ dict_out \in (IF endpoint = "projects" THEN BOOLEAN ELSE {FALSE})
    /\ nPages \in 1..MaxPages
    /\ c_pc = "loop" /\ has_next = TRUE /\ page = 0 /\ acc = <<>>
    /\ c_out = NoOutcome /\ fetches = 0 /\ requested = <<>>
    /\ reported = <<>>
    /\ skewed = FALSE /\ served = <<>> /\ failedAt = 0 /\ failure = "none"

\* One iteration of `while has_next:` whose fetch succeeds; the iteration
\* that sees hasNext false also leaves the loop and returns.
FetchPage ==
    /\ c_pc = "loop" /\ has_next
    /\ \E items \in ItemSeqs, skew \in 0..MaxSkew :
         LET resp == ServerPage(page, ListField(endpoint), items, skew)
             acc2 == acc \o Collected(endpoint, resp)
         IN  /\ acc' = acc2
             /\ page' = NextPage(page, resp)
             /\ has_next' = resp.hasNext
             /\ fetches' = fetches + 1
             /\ requested' = Append(requested, page)
             /\ reported' = Append(reported, [page |-> resp.page,
                                              hasNext |-> resp.hasNext])
             /\ skewed' = (skewed \/ resp.page # page)
             /\ served' = served \o resp.items
             /\ IF resp.hasNext
                THEN c_pc' = "loop" /\ c_out' = c_out
                ELSE /\ c_pc' = "done"
                     /\ c_out' = CollectorResult(endpoint, dict_out, acc2)
    /\ UNCHANGED <<endpoint, dict_out, nPages, failedAt, failure>>

\* One iteration whose fetch raises.
FetchFails ==
    /\ c_pc = "loop" /\ has_next
    /\ \E e \in Failures :
         LET out == OnFetchError(e, acc)
         IN  /\ c_out' = out
             /\ c_pc' = IF out.kind = "raise" THEN "raised" ELSE "done"
             /\ failedAt' = fetches + 1
             /\ failure' = e
    /\ fetches' = fetches + 1
    /\ requested' = Append(requested, page)
    /\ UNCHANGED <<endpoint, dict_out, nPages, has_next, page, acc, skewed,
                   served, reported>>

----------------------------------------------------------------------------
(* API.fill_aoi *)

\* bounds of the input
MaxScenes == 4
GridCells == 4

\* The datasource ids api.py knows.
LANDSAT8 == "697a0b91-b7a8-446e-842c-97cda155554d"
SENTINEL2 == "4a50cb75-815d-4fe5-8bc1-144729ce5b42"
MODIS_TERRA == "a11b768b-d869-476e-a1ed-0ac3205ed761"
MODIS_AQUA == "55735945-9da5-47c3-8ae4-572b5e11205b"

\* Geometry on a grid: a polygon is the set of unit cells it covers (with
\* GridCells = 4, the four quadrants of the 2x2 square).
Cells == 1..GridCells

\* Footprints: a single cell, or the whole grid.
Footprints == {{c} : c \in Cells} \cup {Cells}

\* Areas of interest: the whole grid, or its first cell.
Aois == {Cells, {1}}

\* geometry.shape(scene_boundary.__dict__['_Model__dict'])
Shape(footprint) == footprint.coordinates

\* shapely's cascaded_union of a list of shapes
CascadedUnion(shapes) == UNION {shapes[i] : i \in DOMAIN shapes}

ContainsAsOverlap(a, b) == a \cap b # {}

\* shapely's a.contains(b): no point of b outside a, and b is not empty
Contains(a, b) == b # {} /\ b \subseteq a

\* The scene ids, newest first: the list position decides the id.
SceneIdAt(i) == 10 * (MaxScenes + 1 - i)

Scene(i, ds, cells) ==
    [id |-> SceneIdAt(i),
     datasource |-> [id |-> ds],
     dataFootprint |-> [type |-> "MultiPolygon", coordinates |-> cells]]

FillList(ids) == [kind |-> "list", ids |-> ids, text |-> "", exc |-> "none"]
FillRaised(e) == [kind |-> "raise", ids |-> <<>>, text |-> "", exc |-> e]
FillNoOutcome == [kind |-> "none", ids |-> <<>>, text |-> "", exc |-> "none"]

\* `return "Insufficient imagery available."`: a python str
InsufficientImagery ==
    [kind |-> "str", ids |-> <<>>, text |-> "Insufficient imagery available.",
     exc |-> "none"]

ExhaustedReturnsIds(ids) == FillList(ids)

\* What fill_aoi returns once the for loop has run out of scenes.
ExhaustedResult(ids) == InsufficientImagery

MismatchSkipped(sc, dsid) == FALSE

\* `if scene.datasource.id != datasource_id:`
DatasourceMismatch(sc, dsid) == sc.datasource.id # dsid

FillIdle ==
    /\ results = <<>> /\ aoi_polygon = {} /\ datasource_id = "none"
    /\ f_pc = "off" /\ f_i = 0 /\ scene_boundaries = <<>> /\ scene_ids = <<>>
    /\ f_out = FillNoOutcome /\ unions = 0

\* fill_aoi has been called: two empty lists, the loop before its first scene.
FillInit ==
    /\ \E n \in 0..MaxScenes :
         \E ds \in [1..n -> {LANDSAT8, SENTINEL2}], fp \in [1..n -> Footprints] :
             results = [i \in 1..n |-> Scene(i, ds[i], fp[i])]
    /\ aoi_polygon \in Aois
    /\ datasource_id \in {LANDSAT8, SENTINEL2}
    /\ f_pc = "loop" /\ f_i = 0 /\ scene_boundaries = <<>> /\ scene_ids = <<>>
    /\ f_out = FillNoOutcome /\ unions = 0

\* One iteration of `for scene in results:`.
FillScene ==
    /\ f_pc = "loop" /\ f_i < Len(results)
    /\ LET sc == results[f_i + 1]
       IN  IF DatasourceMismatch(sc, datasource_id)
           THEN /\ f_pc' = "raised"
                /\ f_out' = FillRaised("ValueError")
                /\ UNCHANGED <<f_i, scene_boundaries, scene_ids, unions>>
           ELSE LET boundaries == Append(scene_boundaries,
                                         Shape(sc.dataFootprint))
                    ids == Append(scene_ids, sc.id)
                    aoi_coverage == CascadedUnion(boundaries)
                IN  /\ scene_boundaries' = boundaries
                    /\ scene_ids' = ids
                    /\ unions' = unions + 1
                    /\ f_i' = f_i + 1
                    /\ IF Contains(aoi_coverage, aoi_polygon)
                       THEN f_pc' = "done" /\ f_out' = FillList(ids)
                       ELSE f_pc' = "loop" /\ f_out' = f_out
    /\ UNCHANGED <<results, aoi_polygon, datasource_id>>

\* The loop has run out of scenes: the final return.
FillExhausted ==
    /\ f_pc = "loop" /\ f_i = Len(results)
    /\ f_pc' = "done"
    /\ f_out' = ExhaustedResult(scene_ids)
    /\ UNCHANGED <<results, aoi_polygon, datasource_id, f_i, scene_boundaries,
                   scene_ids, unions>>

----------------------------------------------------------------------------
(* Strings, as sequences of one-character strings *)

DigitChars == <<"0", "1", "2", "3", "4", "5", "6", "7", "8", "9">>

IsDigit(c) == \E k \in 1..10 : DigitChars[k] = c

DigitVal(c) == (CHOOSE k \in 1..10 : DigitChars[k] = c) - 1

AllDigits(cs) == \A i \in DOMAIN cs : IsDigit(cs[i])

RECURSIVE ToInt(_)
\* int() of a string of digits
ToInt(cs) ==
    IF cs = <<>> THEN 0
    ELSE 10 * ToInt(SubSeq(cs, 1, Len(cs) - 1)) + DigitVal(cs[Len(cs)])

RECURSIVE Pow10(_)
Pow10(n) == IF n = 0 THEN 1 ELSE 10 * Pow10(n - 1)

\* '%0wd' % n
Pad(n, w) == [i \in 1..w |-> DigitChars[((n \div Pow10(w - i)) % 10) + 1]]

----------------------------------------------------------------------------
(* API.convert_date_isoformat *)

\* The calendar of python's datetime.
IsLeap(y) == (y % 4 = 0 /\ y % 100 # 0) \/ y % 400 = 0

DaysInMonth(y, m) ==
    CASE m = 2 -> IF IsLeap(y) THEN 29 ELSE 28
      [] m \in {4, 6, 9, 11} -> 30
      [] OTHER -> 31

DaysInYear(y) == IF IsLeap(y) THEN 366 ELSE 365

RECURSIVE DateOfDay(_, _, _)
\* The date n days into year y, counting from month m on:
\* date.fromordinal((julian - 1) + date(year, 1, 1).toordinal()), which
\* runs into the next year when the year has fewer days.
DateOfDay(y, m, n) ==
    IF m > 12 THEN DateOfDay(y + 1, 1, n)
    ELSE IF n <= DaysInMonth(y, m) THEN [ok |-> TRUE, y |-> y, m |-> m, d |-> n]
    ELSE DateOfDay(y, m + 1, n - DaysInMonth(y, m))

NoDate == [ok |-> FALSE, y |-> 0, m |-> 0, d |-> 0]

DateOfDayFromZero(y, n) == DateOfDay(y, 1, n + 1)

\* The date of day-of-year `julian` of year y.
FromJulian(y, julian) == DateOfDay(y, 1, julian)

\* datetime.strptime(s, '%Y%j') on a string of 7 characters: four digits
\* of year and a day of the year 001..366; anything else is a ValueError.
StrptimeYj(s) ==
    IF AllDigits(s) /\ ToInt(SubSeq(s, 1, 4)) >= 1
                    /\ ToInt(SubSeq(s, 5, 7)) \in 1..366
    THEN FromJulian(ToInt(SubSeq(s, 1, 4)), ToInt(SubSeq(s, 5, 7)))
    ELSE NoDate

\* datetime.strptime(s, '%Y-%m-%d') on a string of 10 characters.
StrptimeYmd(s) ==
    IF /\ s[5] = "-" /\ s[8] = "-"
       /\ AllDigits(SubSeq(s, 1, 4)) /\ AllDigits(SubSeq(s, 6, 7))
       /\ AllDigits(SubSeq(s, 9, 10))
    THEN LET y == ToInt(SubSeq(s, 1, 4))
             m == ToInt(SubSeq(s, 6, 7))
             d == ToInt(SubSeq(s, 9, 10))
         IN  IF y >= 1 /\ m \in 1..12 /\ d \in 1..DaysInMonth(y, m)
             THEN [ok |-> TRUE, y |-> y, m |-> m, d |-> d]
             ELSE NoDate
    ELSE NoDate

\* 'T00:00:00', the time of day of a parsed date
MidnightChars == <<"T", "0", "0", ":", "0", "0", ":", "0", "0">>

\* datetime.isoformat() of a midnight
IsoFormat(dt) ==
    Pad(dt.y, 4) \o <<"-">> \o Pad(dt.m, 2) \o <<"-">> \o Pad(dt.d, 2)
        \o MidnightChars

StrValue(cs) == [kind |-> "str", chars |-> cs, num |-> 0, exc |-> "none"]
NumValue(n) == [kind |-> "num", chars |-> <<>>, num |-> n, exc |-> "none"]
NoneValue == [kind |-> "None", chars |-> <<>>, num |-> 0, exc |-> "none"]
Raises(e) == [kind |-> "raise", chars |-> <<>>, num |-> 0, exc |-> e]
NoValue == [kind |-> "none", chars |-> <<>>, num |-> 0, exc |-> "none"]

ConvertDateTruncating(s) ==
    LET t  == IF Len(s) > 10 THEN SubSeq(s, 1, 10) ELSE s
        dt == IF Len(t) = 7 THEN StrptimeYj(t) ELSE StrptimeYmd(t)
    IN  IF Len(t) \notin {7, 10} THEN StrValue(t)
        ELSE IF ~dt.ok THEN Raises("ValueError")
        ELSE StrValue(IsoFormat(dt) \o <<".", "0", "0", "0", "Z">>)

\* convert_date_isoformat(datestring).  With a length other than 7 and 10
\* neither branch binds d, and `d = d.isoformat()+".000Z"` raises
\* UnboundLocalError.
ConvertDateIsoformat(s) ==
    LET dt == IF Len(s) = 7 THEN StrptimeYj(s) ELSE StrptimeYmd(s)
    IN  IF Len(s) \notin {7, 10} THEN Raises("UnboundLocalError")
        ELSE IF ~dt.ok THEN Raises("ValueError")
        ELSE StrValue(IsoFormat(dt) \o <<".", "0", "0", "0", "Z">>)

\* The years the date strings are drawn from: a leap year, a common year,
\* a common century year and a leap century year.
Years == {2016, 2017, 1900, 2000}

OrdinalString(y, n) == Pad(y, 4) \o Pad(n, 3)

CalendarString(y, m, d) == Pad(y, 4) \o <<"-">> \o Pad(m, 2) \o <<"-">> \o Pad(d, 2)

\* Strings of other lengths.
OddStrings == {<<>>, <<"2", "0", "1", "6", "5">>,
               <<"2", "0", "1", "6", "0", "5", "0", "2">>,
               <<"2", "0", "1", "6", "-", "0", "5", "-", "0", "2", "T">>}

DateStrings ==
    {OrdinalString(y, n) : y \in Years, n \in 0..367}
        \cup {CalendarString(y, m, d) : y \in Years, m \in 0..13, d \in 0..32}
        \cup OddStrings

DateIdle == datestring = <<>> /\ d_pc = "off" /\ d_out = NoValue

DateInit == datestring \in DateStrings /\ d_pc = "call" /\ d_out = NoValue

ConvertDate ==
    /\ d_pc = "call"
    /\ d_pc' = "done"
    /\ d_out' = ConvertDateIsoformat(datestring)
    /\ UNCHANGED datestring

----------------------------------------------------------------------------
(* API.get_cloud_cover and API.get_timestamp *)

KnownDatasources == {LANDSAT8, SENTINEL2, MODIS_TERRA, MODIS_AQUA}

\* Ids of datasources api.py does not know.
OtherDatasources == {"e4d1b0a0-99ee-493d-8548-53df8e20d2aa", ""}

MetadataKeys == {"cloudCover", "cloudyPixelPercentage", "acquisitionDate",
                 "timeStamp"}

\* The acquisitionDate values of the scenes: a calendar date, an ordinal
\* date, and strings of other lengths.
AcquisitionDates ==
    {CalendarString(2016, 5, 2), OrdinalString(2016, 123)} \cup OddStrings

S2TimeStamp == CalendarString(2016, 5, 2)
                   \o <<"T", "1", "0", ":", "0", "0", ":", "0", "0", "Z">>

\* Scene names: a MODIS granule name, a name without a dot, a granule
\* name whose date part is short.
SceneNames ==
    {<<"M", "O", "D", ".", "A", "2", "0", "1", "6", "1", "2", "3", ".", "h">>,
     <<"L", "C", "8">>,
     <<"M", "O", "D", ".", "A", "2", "0", "1", "6", "5", ".", "h">>}

\* The sceneMetadata dicts: any subset of the keys.
Metadatas ==
    UNION {{[k \in ks |->
                CASE k = "cloudCover" -> NumValue(12)
                  [] k = "cloudyPixelPercentage" -> NumValue(3)
                  [] k = "acquisitionDate" -> StrValue(ad)
                  [] OTHER -> StrValue(S2TimeStamp)] :
              ad \in (IF "acquisitionDate" \in ks THEN AcquisitionDates
                                                  ELSE {<<>>})} :
           ks \in SUBSET MetadataKeys}

\* The scenes: a dict, or a generated Model object holding that dict.
Scenes ==
    [isDict : BOOLEAN,
     fields : [datasource : [id : KnownDatasources \cup OtherDatasources],
               sceneMetadata : Metadatas,
               name : SceneNames]]

\* `if not isinstance(scene, dict): scene = scene.__dict__['_Model__dict']`
AsDict(sc) == sc.fields

RECURSIVE SplitFrom(_, _, _)
\* s.split(sep), the piece `cur` being read
SplitFrom(s, sep, cur) ==
    IF s = <<>> THEN <<cur>>
    ELSE IF Head(s) = sep THEN <<cur>> \o SplitFrom(Tail(s), sep, <<>>)
    ELSE SplitFrom(Tail(s), sep, Append(cur, Head(s)))

Split(s, sep) == SplitFrom(s, sep, <<>>)

\* `scene['name'].split(".")[1][1:]`, then convert_date_isoformat
ModisTimestamp(d) ==
    LET parts == Split(d.name, ".")
    IN  IF Len(parts) < 2 THEN Raises("IndexError")
        ELSE ConvertDateIsoformat(Tail(parts[2]))

\* A dict lookup d[k] followed by `then`, or the KeyError.
Lookup(md, k) == IF k \in DOMAIN md THEN md[k] ELSE Raises("KeyError")

CloudCoverBranchElse(dsid) ==
    CASE dsid = LANDSAT8 -> "landsat8"
      [] OTHER -> "sentinel2"

\* The branch of get_cloud_cover's if/elif chain a datasource id takes.
CloudCoverBranch(dsid) ==
    CASE dsid = LANDSAT8 -> "landsat8"
      [] dsid = SENTINEL2 -> "sentinel2"
      [] OTHER -> "none"

GetCloudCover(sc) ==
    LET d == AsDict(sc)
        branch == CloudCoverBranch(d.datasource.id)
    IN  CASE branch = "landsat8" -> Lookup(d.sceneMetadata, "cloudCover")
          [] branch = "sentinel2" ->
                 Lookup(d.sceneMetadata, "cloudyPixelPercentage")
          [] OTHER -> NoneValue

TimestampBranchElse(dsid) ==
    CASE dsid = LANDSAT8 -> "landsat8"
      [] dsid = SENTINEL2 -> "sentinel2"
      [] dsid = MODIS_TERRA -> "modis"
      [] OTHER -> "modis"

\* The branch of get_timestamp's if/elif chain a datasource id takes.
TimestampBranch(dsid) ==
    CASE dsid = LANDSAT8 -> "landsat8"
      [] dsid = SENTINEL2 -> "sentinel2"
      [] dsid = MODIS_TERRA -> "modis"
      [] dsid = MODIS_AQUA -> "modis"
      [] OTHER -> "none"

GetTimestamp(sc) ==
    LET d == AsDict(sc)
        branch == TimestampBranch(d.datasource.id)
    IN  CASE branch = "landsat8" ->
                 LET ts == Lookup(d.sceneMetadata, "acquisitionDate")
                 IN  IF ts.kind = "raise" THEN ts
                     ELSE ConvertDateIsoformat(ts.chars)
          [] branch = "sentinel2" -> Lookup(d.sceneMetadata, "timeStamp")
          [] branch = "modis" -> ModisTimestamp(d)
          [] OTHER -> NoneValue

SceneIdle ==
    /\ scene = [isDict |-> TRUE, fields |-> <<>>]
    /\ m_op = "none" /\ m_out = NoValue

SceneInit == scene \in Scenes /\ m_op = "none" /\ m_out = NoValue

CallGetCloudCover ==
    /\ m_op = "none"
    /\ m_op' = "get_cloud_cover"
    /\ m_out' = GetCloudCover(scene)
    /\ UNCHANGED scene

CallGetTimestamp ==
    /\ m_op = "none"
    /\ m_op' = "get_timestamp"
    /\ m_out' = GetTimestamp(scene)
    /\ UNCHANGED scene

----------------------------------------------------------------------------
(* API.get_scenes *)

\* Python values: None, a str (its characters), a list (its items), an
\* int, an object with a `bounds` attribute (a shapefile geometry).
PyNone == [type |-> "NoneType", chars |-> <<>>, items |-> <<>>]
PyStr(cs) == [type |-> "str", chars |-> cs, items |-> <<>>]
PyList(xs) == [type |-> "list", chars |-> <<>>, items |-> xs]
PyInt(n) == [type |-> "int", chars |-> <<>>, items |-> <<n>>]
PyGeom(bounds) == [type |-> "geometry", chars |-> <<>>, items |-> bounds]

\* bool(v)
Truthy(v) ==
    CASE v.type = "NoneType" -> FALSE
      [] v.type = "str" -> v.chars # <<>>
      [] v.type = "list" -> v.items # <<>>
      [] v.type = "int" -> v.items # <<0>>
      [] OTHER -> TRUE

RECURSIVE DecimalStr(_)
\* str(n) of an int n >= 0
DecimalStr(n) ==
    IF n < 10 THEN <<DigitChars[n + 1]>>
    ELSE DecimalStr(n \div 10) \o <<DigitChars[(n % 10) + 1]>>

RECURSIVE Join(_, _)
\* sep.join(parts)
Join(sep, parts) ==
    IF parts = <<>> THEN <<>>
    ELSE IF Len(parts) = 1 THEN parts[1]
    ELSE parts[1] \o sep \o Join(sep, Tail(parts))

\* `','.join(str(x) for x in v)`: over the characters of a str, over the
\* items of a list
CommaJoin(v) ==
    IF v.type = "str"
    THEN PyStr(Join(<<",">>, [i \in DOMAIN v.chars |-> <<v.chars[i]>>]))
    ELSE PyStr(Join(<<",">>, [i \in DOMAIN v.items |-> DecimalStr(v.items[i])]))

\* hasattr(bbox, 'bounds')
HasBounds(v) == v.type = "geometry"

\* The bounds of the bounding boxes.
BoxBounds == <<1, 2, 13, 4>>

ShapeIds == {PyNone, PyStr(<<>>), PyStr(<<"c", "2", "f", "a">>)}

Bboxes == {PyNone, PyStr(<<>>), PyList(<<>>),
           PyStr(<<"1", ",", "2", ",", "1", "3", ",", "4">>),
           PyList(BoxBounds), PyGeom(BoxBounds)}

AcquisitionBound == PyStr(CalendarString(2015, 1, 21) \o MidnightChars)

GetScenesArgs ==
    [shape_id : ShapeIds,
     bbox : Bboxes,
     datasource : {PyList(<<>>), PyList(<<LANDSAT8>>)},
     maxCloudCover : {PyInt(10), PyInt(50)},
     minAcquisitionDatetime : {PyNone, AcquisitionBound},
     maxAcquisitionDatetime : {PyNone, AcquisitionBound},
     kwargs : {<<>>, [page |-> PyInt(1)]}]

GsRaise(e, msg) == [kind |-> "raise", exc |-> e, msg |-> msg]
GsReturn == [kind |-> "return", exc |-> "none", msg |-> ""]
GsNoOutcome == [kind |-> "none", exc |-> "none", msg |-> ""]

MissingEither(shape_id, bbox) == ~Truthy(shape_id) \/ ~Truthy(bbox)

\* `if not shape_id and not bbox:`
MissingBoth(shape_id, bbox) == ~Truthy(shape_id) /\ ~Truthy(bbox)

\* `if (shape_id and bbox):`
PassedBoth(shape_id, bbox) == Truthy(shape_id) /\ Truthy(bbox)

\* The optional entries of params, each set when its `if` holds.
Entry(cond, key, value) == IF cond THEN (key :> value) ELSE <<>>

\* params['bbox']: from bbox.bounds when bbox has bounds, else from bbox
\* itself when its type is not that of the joined string.
BboxEntry(bbox) ==
    IF Truthy(bbox) /\ HasBounds(bbox)
    THEN "bbox" :> CommaJoin(PyList(bbox.items))
    ELSE IF Truthy(bbox) /\ bbox.type # CommaJoin(bbox).type
    THEN "bbox" :> CommaJoin(bbox)
    ELSE <<>>

\* The params dict get_scenes builds; later assignments overwrite.
ScenesParams(a) ==
    a.kwargs
        @@ Entry(Truthy(a.maxAcquisitionDatetime), "maxAcquisitionDatetime",
                 a.maxAcquisitionDatetime)
        @@ Entry(Truthy(a.minAcquisitionDatetime), "minAcquisitionDatetime",
                 a.minAcquisitionDatetime)
        @@ Entry(Truthy(a.datasource), "datasource", a.datasource)
        @@ BboxEntry(a.bbox)
        @@ Entry(Truthy(a.shape_id), "shape", a.shape_id)
        @@ ("maxCloudCover" :> a.maxCloudCover)

GetScenesIdle ==
    /\ g_args = <<>> /\ g_pc = "off" /\ g_out = GsNoOutcome /\ g_request = <<>>

GetScenesInit ==
    /\ g_args \in GetScenesArgs
    /\ g_pc = "call" /\ g_out = GsNoOutcome /\ g_request = <<>>

\* get_scenes(...): the two checks, then the request.
CallGetScenes ==
    /\ g_pc = "call"
    /\ g_pc' = "done"
    /\ IF MissingBoth(g_args.shape_id, g_args.bbox)
       THEN /\ g_out' = GsRaise("ValueError",
                                "Must pass platform shape_id or bbox.")
            /\ g_request' = g_request
       ELSE IF PassedBoth(g_args.shape_id, g_args.bbox)
       THEN /\ g_out' = GsRaise("ValueError",
                                "Can not pass both a shape_id and a bbox.")
            /\ g_request' = g_request
       ELSE /\ g_request' = Append(g_request, ScenesParams(g_args))
            /\ \E failed \in BOOLEAN :
                   g_out' = IF failed THEN GsRaise("HTTPError", "")
                                      ELSE GsReturn
    /\ UNCHANGED g_args

----------------------------------------------------------------------------
(* Project.create_export *)

\* bounds of the coordinates argument
MaxWrap == 3
MaxWidth == 2

\* Nested lists: a number, or a list of nested lists.
Num == [kind |-> "num", items |-> <<>>]
List(xs) == [kind |-> "list", items |-> xs]
NoCoordinates == [kind |-> "None", items |-> <<>>]

\* Lists of up to MaxWidth elements of S.
ListsOf(S) == {List(xs) : xs \in UNION {[1..n -> S] : n \in 0..MaxWidth}}

RECURSIVE Wrapped(_, _)
\* t inside n lists of one element
Wrapped(t, n) == IF n = 0 THEN t ELSE List(<<Wrapped(t, n - 1)>>)

\* The structures of depth up to 2, ragged and empty ones included.
Shallow == {Num} \cup ListsOf({Num} \cup ListsOf({Num}))

\* The coordinates arguments: None, and the shallow structures inside up
\* to MaxWrap further lists, alone or beside a second element.
CoordinateArgs ==
    {NoCoordinates}
        \cup {Wrapped(t, n) : t \in Shallow, n \in 0..MaxWrap}
        \cup {List(<<Wrapped(t, n), u>>) :
                 t \in ListsOf({Num}), n \in 0..MaxWrap,
                 u \in {Num, List(<<>>), Wrapped(Num, 4)}}

\* `if coordinates:`
HasCoordinates(c) ==
    CASE c.kind = "None" -> FALSE
      [] c.kind = "list" -> c.items # <<>>
      [] OTHER -> TRUE

DepthError == -1

RECURSIVE Depth(_)
\* depth = lambda L: isinstance(L, list) and max(map(depth, L)) + 1
\* False (0) for what is no list; max() of an empty list raises ValueError.
Depth(L) ==
    IF L.kind # "list" THEN 0
    ELSE IF L.items = <<>> THEN DepthError
    ELSE LET ds == {Depth(L.items[i]) : i \in DOMAIN L.items}
         IN  IF DepthError \in ds THEN DepthError ELSE SetMax(ds) + 1

\* `if depth(coordinates) == 3:`
IsSinglePolygon(c) == Depth(c) = 3

\* `coordinates = [coordinates]`
AsMultiPolygon(c) == IF IsSinglePolygon(c) THEN List(<<c>>) ELSE c

WrongDimensionBelow(c) == Depth(c) < 4

\* `if depth(coordinates) != 4:`
WrongDimension(c) == Depth(c) # 4

MaskAsPolygon(c) == [type |-> "Polygon", coordinates |-> c]

\* The mask of an export cut to a shape.
Mask(c) == [type |-> "MultiPolygon", coordinates |-> c]

NoMask == [type |-> "None", coordinates |-> NoCoordinates]

\* The export body, for an export cut to a shape or covering all scenes.
ExportBody(res, mask) ==
    [projectId |-> "self.id",
     toolRunId |-> "None",
     exportStatus |-> "NOTEXPORTED",
     exportType |-> "S3",
     visibility |-> "PRIVATE",
     exportOptions |-> [resolution |-> res, crop |-> FALSE, raw |-> FALSE,
                        mask |-> mask]]

ExportIdle ==
    /\ coordinates = NoCoordinates /\ resolution = 0
    /\ e_pc = "off" /\ e_out = GsNoOutcome /\ e_posted = <<>>

ExportInit ==
    /\ coordinates \in CoordinateArgs /\ resolution \in {9, 10}
    /\ e_pc = "call" /\ e_out = GsNoOutcome /\ e_posted = <<>>

\* create_export(resolution, coordinates): the depth checks, then the post.
CreateExport ==
    /\ e_pc = "call"
    /\ e_pc' = "done"
    /\ IF HasCoordinates(coordinates) /\ Depth(coordinates) = DepthError
       THEN /\ e_out' = GsRaise("ValueError",
                                "max() arg is an empty sequence")
            /\ e_posted' = e_posted
       ELSE IF /\ HasCoordinates(coordinates)
               /\ WrongDimension(AsMultiPolygon(coordinates))
       THEN /\ e_out' = GsRaise("ValueError",
                                "Coordinates do have correct dimmension")
            /\ e_posted' = e_posted
       ELSE /\ e_posted' =
                   Append(e_posted,
                          ExportBody(resolution,
                                     IF HasCoordinates(coordinates)
                                     THEN Mask(AsMultiPolygon(coordinates))
                                     ELSE NoMask))
            /\ \E failed \in BOOLEAN :
                   e_out' = IF failed THEN GsRaise("HTTPError", "")
                                      ELSE GsReturn
    /\ UNCHANGED <<coordinates, resolution>>

----------------------------------------------------------------------------
(* Project.get_thumbnail, Project.geotiff, Project.png *)

\* requests.codes.gateway_timeout
GatewayTimeout == 504

\* The status codes the tile server answers with.
Statuses == {200, 204, 304, 400, 404, 500, 502, GatewayTimeout}

ExportFormats == {"png", "tiff", "PNG", "TIFF", "jpeg"}

\* export_format.lower()
Lower(fmt) ==
    CASE fmt = "PNG" -> "png"
      [] fmt = "TIFF" -> "tiff"
      [] OTHER -> fmt

\* The calls: geotiff and png pass their own format to get_thumbnail.
ThumbnailCalls ==
    {[method |-> "geotiff", export_format |-> "tiff", raw |-> r] :
         r \in BOOLEAN}
      \cup {[method |-> "png", export_format |-> "png", raw |-> r] :
                r \in BOOLEAN}
      \cup [method : {"get_thumbnail"}, export_format : ExportFormats,
            raw : BOOLEAN]

\* headers['Accept'] = 'image/{}'.format(...)
AcceptHeader(export_format) ==
    IF Lower(export_format) \in {"png", "tiff"} THEN <<"image", export_format>>
    ELSE <<"image", "png">>

\* The request of requests.get: the Accept header and the colorCorrect
\* parameter.
ThumbnailRequest(call) ==
    [accept |-> AcceptHeader(call.export_format),
     colorCorrect |-> IF call.raw THEN "false" ELSE "true"]

TRaise(e, status) == [kind |-> "raise", exc |-> e, status |-> status,
                      value |-> "none"]
TReturn(status, value) == [kind |-> "return", exc |-> "none",
                           status |-> status, value |-> value]
TNoOutcome == [kind |-> "none", exc |-> "none", status |-> 0, value |-> "none"]

NeverGatewayTimeout(status) == FALSE

\* `if response.status_code == requests.codes.gateway_timeout:`
IsGatewayTimeout(status) == status = GatewayTimeout

\* response.raise_for_status() raises HTTPError for 4xx and 5xx.
RaiseForStatus(status) == status >= 400 /\ status < 600

\* get_thumbnail returns the response; geotiff and png its content.
ThumbnailValue(method) ==
    IF method = "get_thumbnail" THEN "response" ELSE "content"

\* What the call hands to its caller for a response of the given status.
ThumbnailResult(method, status) ==
    IF IsGatewayTimeout(status)
    THEN TRaise("GatewayTimeoutException", status)
    ELSE IF RaiseForStatus(status) THEN TRaise("HTTPError", status)
    ELSE TReturn(status, ThumbnailValue(method))

ThumbnailIdle ==
    /\ t_call = <<>> /\ t_pc = "off" /\ t_status = 0 /\ t_out = TNoOutcome
    /\ t_sent = <<>>

ThumbnailInit ==
    /\ t_call \in ThumbnailCalls
    /\ t_pc = "call" /\ t_status = 0 /\ t_out = TNoOutcome /\ t_sent = <<>>

\* The call whose request is answered.
GetThumbnail ==
    /\ t_pc = "call"
    /\ t_pc' = "done"
    /\ t_sent' = Append(t_sent, ThumbnailRequest(t_call))
    /\ \E status \in Statuses :
          /\ t_status' = status
          /\ t_out' = ThumbnailResult(t_call.method, status)
    /\ UNCHANGED t_call

\* The call whose requests.get raises: no response arrives.
GetThumbnailFails ==
    /\ t_pc = "call"
    /\ t_pc' = "done"
    /\ t_sent' = Append(t_sent, ThumbnailRequest(t_call))
    /\ t_out' = TRaise("ConnectionError", 0)
    /\ UNCHANGED <<t_call, t_status>>

----------------------------------------------------------------------------
(* API.__init__ and API.get_api_token *)

RefreshTokens == {PyNone, PyStr(<<>>), PyStr(<<"r", "1">>)}
ApiTokens == {PyNone, PyStr(<<>>), PyStr(<<"a", "1">>)}

\* Hosts, as their dot-separated labels.
Hosts == {<<"api", "radiant", "earth">>, <<"localhost">>}

ApiArgs ==
    [refresh_token : RefreshTokens, api_token : ApiTokens, host : Hosts,
     scheme : {"https", "http"}]

\* What the token endpoint can answer: a JSON body with an id_token (a
\* string, or null), a JSON body without one, a body that is no JSON, or
\* no answer.
TokenAnswers ==
    {[kind |-> "id_token", token |-> PyStr(<<"t", "1">>)],
     [kind |-> "id_token", token |-> PyNone],
     [kind |-> "no_id_token", token |-> PyNone],
     [kind |-> "not_json", token |-> PyNone],
     [kind |-> "no_answer", token |-> PyNone]}

AReturn == [kind |-> "return", exc |-> "none"]
ARaise(e) == [kind |-> "raise", exc |-> e]
ANoOutcome == [kind |-> "none", exc |-> "none"]

\* split_host = host.split('.'); split_host[0] = 'tiles'
TileHost(host) == <<"tiles">> \o Tail(host)

\* '{}'.format(v)
Format(v) == IF v.type = "NoneType" THEN <<"N", "o", "n", "e">> ELSE v.chars

\* 'Bearer {}'.format(api_token)
Bearer(api_token) ==
    <<"B", "e", "a", "r", "e", "r", " ">> \o Format(api_token)

\* get_api_token(refresh_token): the token, or the exception raised.
GetApiToken(answer) ==
    CASE answer.kind = "id_token" -> [ok |-> TRUE, token |-> answer.token,
                                      exc |-> "none"]
      [] answer.kind = "not_json" -> [ok |-> FALSE, token |-> PyNone,
                                      exc |-> "RefreshTokenException"]
      [] answer.kind = "no_id_token" -> [ok |-> FALSE, token |-> PyNone,
                                         exc |-> "KeyError"]
      [] OTHER -> [ok |-> FALSE, token |-> PyNone, exc |-> "ConnectionError"]

ExchangeWheneverRefresh(refresh_token, api_token) == Truthy(refresh_token)

\* `if refresh_token and not api_token:`
ExchangeNeeded(refresh_token, api_token) ==
    Truthy(refresh_token) /\ ~Truthy(api_token)

\* `elif not api_token:`
NoCredential(refresh_token, api_token) ==
    ~ExchangeNeeded(refresh_token, api_token) /\ ~Truthy(api_token)

NoHeaders == <<>>

ApiIdle ==
    /\ a_args = <<>> /\ a_pc = "off" /\ a_out = ANoOutcome
    /\ a_api_token = PyNone /\ a_tile_host = <<>> /\ a_headers = NoHeaders
    /\ a_exchanges = <<>> /\ a_obtained = PyNone

\* API(...) has been called: a fresh RequestsClient, no attribute set.
ApiInit ==
    /\ a_args \in ApiArgs
    /\ a_pc = "call" /\ a_out = ANoOutcome
    /\ a_api_token = PyNone /\ a_tile_host = <<>> /\ a_headers = NoHeaders
    /\ a_exchanges = <<>> /\ a_obtained = PyNone

\* The constructor with the API specification loaded.
Construct ==
    /\ a_pc = "call"
    /\ a_pc' = "done"
    /\ a_tile_host' = TileHost(a_args.host)
    /\ IF ExchangeNeeded(a_args.refresh_token, a_args.api_token)
       THEN \E answer \in TokenAnswers :
                LET got == GetApiToken(answer)
                IN  /\ a_exchanges' = Append(a_exchanges, a_args.refresh_token)
                    /\ a_obtained' = answer.token
                    /\ IF got.ok
                       THEN /\ a_api_token' = got.token
                            /\ a_headers' = ("Authorization" :> Bearer(got.token))
                            /\ a_out' = AReturn
                       ELSE /\ a_out' = ARaise(got.exc)
                            /\ UNCHANGED <<a_api_token, a_headers>>
       ELSE IF NoCredential(a_args.refresh_token, a_args.api_token)
       THEN /\ a_out' = ARaise("Exception")
            /\ UNCHANGED <<a_api_token, a_headers, a_exchanges, a_obtained>>
       ELSE /\ a_api_token' = a_args.api_token
            /\ a_headers' = ("Authorization" :> Bearer(a_args.api_token))
            /\ a_out' = AReturn
            /\ UNCHANGED <<a_exchanges, a_obtained>>
    /\ UNCHANGED a_args

\* The constructor whose load_url / load_file of the API specification
\* raises.
ConstructLoadFails ==
    /\ a_pc = "call"
    /\ a_pc' = "done"
    /\ a_out' = ARaise("LoadError")
    /\ UNCHANGED <<a_args, a_api_token, a_tile_host, a_headers, a_exchanges,
                   a_obtained>>

----------------------------------------------------------------------------
(* Project.add_scenes, Project.set_scene_order, Project.add_ordered_scenes *)

\* bounds of the project and of the sceneIDs argument
NumSceneIds == 3
MaxOrderLen == 3

SceneIdSet == 1..NumSceneIds

SceneIdLists == UNION {[1..n -> SceneIdSet] : n \in 0..MaxOrderLen}

SeqSet(xs) == {xs[i] : i \in DOMAIN xs}

OReturn == [kind |-> "return", exc |-> "none"]
ORaise(e) == [kind |-> "raise", exc |-> e]
ONoOutcome == [kind |-> "none", exc |-> "none"]

PostScenes(ids) == [op |-> "post_projects_projectID_scenes", ids |-> ids]
GetScenesPage == [op |-> "get_projects_projectID_scenes", ids |-> <<>>]
PutOrder(ids) == [op |-> "put_projects_projectID_order", ids |-> ids]

NoOrder == [set |-> FALSE, ids |-> <<>>]
OrderOf(ids) == [set |-> TRUE, ids |-> ids]

RECURSIVE RemoveAll(_, _)
\* `for scene in sceneIDs: proj_scenes.remove(scene)`: the set left, or
\* the KeyError of removing what is not in the set.
RemoveAll(proj_scenes, ids) ==
    IF ids = <<>> THEN [ok |-> TRUE, rest |-> proj_scenes]
    ELSE IF Head(ids) \notin proj_scenes THEN [ok |-> FALSE, rest |-> proj_scenes]
    ELSE RemoveAll(proj_scenes \ {Head(ids)}, Tail(ids))

LeftoverIgnored(proj_scenes) == FALSE

\* `if proj_scenes:`
Leftover(proj_scenes) == proj_scenes # {}

\* The validation of set_scene_order: "ok", or the exception it raises.
ValidateOrder(proj_scenes, ids) ==
    LET removed == RemoveAll(proj_scenes, ids)
    IN  IF ~removed.ok THEN "KeyError"
        ELSE IF Leftover(removed.rest) THEN "ValueError"
        ELSE "ok"

\* The answers of the platform to the order PUT: a status, or 0 when the
\* request raises.
PutAnswers == {200, 400, 500, 0}

\* The answers to the add-scenes POST: the scenes are added, the request is
\* refused with a JSON body, or it raises.
PostAnswers == {"added", "refused", "raises"}

OrderArgumentEmpty(ids) == <<>>

\* add_ordered_scenes: `self.set_scene_order(sceneIDs=sceneIDs)`
OrderArgument(ids) == ids

OrderIdle ==
    /\ o_method = "none" /\ sceneIDs = <<>> /\ p_scenes = {}
    /\ p_order = NoOrder /\ o_pc = "off" /\ o_out = ONoOutcome
    /\ o_calls = <<>>

OrderInit ==
    /\ o_method \in {"set_scene_order", "add_ordered_scenes"}
    /\ sceneIDs \in SceneIdLists
    /\ p_scenes \in SUBSET SceneIdSet
    /\ p_order = NoOrder
    /\ o_pc = (IF o_method = "add_ordered_scenes" THEN "add" ELSE "order")
    /\ o_out = ONoOutcome /\ o_calls = <<>>

\* add_scenes(sceneIDs=sceneIDs), as add_ordered_scenes calls it.
AddScenes ==
    /\ o_pc = "add"
    /\ o_calls' = Append(o_calls, PostScenes(sceneIDs))
    /\ \E answer \in PostAnswers :
         CASE answer = "added" ->
                  /\ p_scenes' = p_scenes \cup SeqSet(sceneIDs)
                  /\ o_pc' = "order" /\ o_out' = o_out
           [] answer = "refused" ->
                  /\ p_scenes' = p_scenes
                  /\ o_pc' = "order" /\ o_out' = o_out
           [] OTHER ->
                  /\ p_scenes' = p_scenes
                  /\ o_pc' = "done" /\ o_out' = ORaise("ConnectionError")
    /\ UNCHANGED <<o_method, sceneIDs, p_order>>

\* set_scene_order(sceneIDs) with the project's scenes fetched.
SetSceneOrder ==
    /\ o_pc = "order"
    /\ o_pc' = "done"
    /\ LET ids == IF o_method = "add_ordered_scenes"
                  THEN OrderArgument(sceneIDs) ELSE sceneIDs
           check == ValidateOrder(p_scenes, ids)
       IN  IF check # "ok"
           THEN /\ o_calls' = Append(o_calls, GetScenesPage)
                /\ o_out' = ORaise(check)
                /\ p_order' = p_order
           ELSE /\ o_calls' = o_calls \o <<GetScenesPage, PutOrder(ids)>>
                /\ \E status \in PutAnswers :
                      /\ p_order' = IF status = 200 THEN OrderOf(ids)
                                                    ELSE p_order
                      /\ o_out' = IF status = 0 THEN ORaise("ConnectionError")
                                  ELSE IF RaiseForStatus(status)
                                  THEN ORaise("HTTPError")
                                  ELSE OReturn
    /\ UNCHANGED <<o_method, sceneIDs, p_scenes>>

\* set_scene_order whose get_scenes() raises.
SetSceneOrderFetchFails ==
    /\ o_pc = "order"
    /\ o_pc' = "done"
    /\ o_calls' = Append(o_calls, GetScenesPage)
    /\ o_out' = ORaise("ConnectionError")
    /\ UNCHANGED <<o_method, sceneIDs, p_scenes, p_order>>

----------------------------------------------------------------------------
(* check_notebook and the Project methods it wraps *)

\* bound of the positional arguments of a call
MaxArgs == 3

\* The wrapped functions: f() and f(*args, **kwargs) of the tests, and the
\* four Project methods.
TestFunctions == {"f", "f_args_kwargs"}
GatedMethods == {"add_to", "compare", "get_layer", "get_map"}

\* The calls: the function, the number of positional arguments besides
\* self, whether a keyword argument foo='bar' is passed, and whether the
\* project's extent has coordinates.
NotebookCalls ==
    {c \in [fn : TestFunctions \cup GatedMethods, nargs : 0..MaxArgs,
            kw : BOOLEAN, has_coords : BOOLEAN] :
        c.fn # "get_map" => c.has_coords}

NReturn(v) == [kind |-> "return", value |-> v, exc |-> "none"]
NRaise(e) == [kind |-> "raise", value |-> "none", exc |-> e]
NNoOutcome == [kind |-> "none", value |-> "none", exc |-> "none"]

\* Whether the arguments fit the signature of the function.
AcceptsArguments(c) ==
    CASE c.fn = "f" -> c.nargs = 0 /\ ~c.kw
      [] c.fn = "f_args_kwargs" -> TRUE
      [] c.fn = "add_to" -> c.nargs = 1 /\ ~c.kw
      [] c.fn = "compare" -> c.nargs = 2 /\ ~c.kw
      [] c.fn = "get_layer" -> c.nargs = 0 /\ ~c.kw
      [] OTHER -> c.nargs = 0

\* What the function itself does when called: its return value or the
\* exception it raises.  compare names SideBySideControl, whose import is
\* commented out; get_map needs the project's center.
OwnResult(c) ==
    IF ~AcceptsArguments(c) THEN NRaise("TypeError")
    ELSE CASE c.fn \in TestFunctions -> NReturn("foo")
           [] c.fn = "add_to" -> NReturn("None")
           [] c.fn = "compare" -> NRaise("NameError")
           [] c.fn = "get_layer" -> NReturn("TileLayer")
           [] OTHER -> IF c.has_coords THEN NReturn("Map")
                       ELSE NRaise("ValueError")

CheckNotebookAlwaysCalls(support, c) ==
    [ran |-> 1, out |-> OwnResult(c)]

\* A call of check_notebook(f): with notebook support the function runs
\* and its outcome is the call's; without, nothing runs and the call
\* returns None, whatever the arguments.
CheckNotebook(support, c) ==
    IF support THEN [ran |-> 1, out |-> OwnResult(c)]
    ELSE [ran |-> 0, out |-> NReturn("None")]

NotebookIdle ==
    /\ NOTEBOOK_SUPPORT = FALSE /\ n_call = <<>> /\ n_pc = "off"
    /\ n_ran = 0 /\ n_out = NNoOutcome

NotebookInit ==
    /\ NOTEBOOK_SUPPORT \in BOOLEAN
    /\ n_call \in NotebookCalls
    /\ n_pc = "call" /\ n_ran = 0 /\ n_out = NNoOutcome

\* A call of the wrapped function.
CallWrapped ==
    /\ n_pc = "call"
    /\ n_pc' = "done"
    /\ LET r == CheckNotebook(NOTEBOOK_SUPPORT, n_call)
       IN  n_ran' = n_ran + r.ran /\ n_out' = r.out
    /\ UNCHANGED <<NOTEBOOK_SUPPORT, n_call>>

----------------------------------------------------------------------------
(* Project.get_ordered_scene_ids and Project.get_image_source_uris *)

\* bounds of the project
MaxProjectScenes == 2
MaxImages == 2

\* Python values used as dict keys: a scene id is a str, a sceneOrder an
\* int or None.  Values of different types are never equal.
KeyStr(s) == [type |-> "str", s |-> s, n |-> 0]
KeyInt(n) == [type |-> "int", s |-> "", n |-> n]
KeyNone == [type |-> "NoneType", s |-> "", n |-> 0]

ProjectSceneIds == <<"cf25a31c", "da841d25", "0b1e7a52">>

SceneOrders == {KeyInt(n) : n \in 0..(MaxProjectScenes - 1)} \cup {KeyNone}

\* The images of the scene at position i: their sourceUris.
ImagesOf(i, k) == [j \in 1..k |-> [sourceUri |-> <<"s3", i, j>>]]

\* The scene lists: distinct ids, any sceneOrder, up to MaxImages images.
ProjectScenes ==
    UNION {{[i \in 1..n |-> [id |-> KeyStr(ProjectSceneIds[i]),
                             sceneOrder |-> ord[i],
                             images |-> ImagesOf(i, cnt[i])]] :
               ord \in [1..n -> SceneOrders], cnt \in [1..n -> 0..MaxImages]} :
           n \in 0..MaxProjectScenes}

UReturn(uris) == [kind |-> "return", uris |-> uris, exc |-> "none"]
URaise(e) == [kind |-> "raise", uris |-> <<>>, exc |-> e]
UNoOutcome == [kind |-> "none", uris |-> <<>>, exc |-> "none"]

RECURSIVE DictOfEntries(_, _)
\* A dict filled entry by entry: a later entry of the same key overwrites.
DictOfEntries(d, entries) ==
    IF entries = <<>> THEN d
    ELSE DictOfEntries(DictPut(d, Head(entries).key, Head(entries).value),
                       Tail(entries))

\* `{scene.sceneOrder:scene.id for scene in self.get_scenes()}`, as the
\* ordered list of its [key, value] entries.
GetOrderedSceneIds(scenes) ==
    DictOfEntries(<<>>, [i \in DOMAIN scenes |->
                 [key |-> scenes[i].sceneOrder, value |-> scenes[i].id]])

\* `id_to_scene[scene.id] = scene` for every scene
IdToScene(scenes) ==
    DictOfEntries(<<>>, [i \in DOMAIN scenes |->
                 [key |-> scenes[i].id, value |-> scenes[i]]])

\* `for scene_id in ordered_scene_ids`: iterating a dict yields its keys.
IterDict(d) == [i \in DOMAIN d |-> d[i].key]

HasKey(d, k) == \E i \in DOMAIN d : d[i].key = k

GetItem(d, k) == d[CHOOSE i \in DOMAIN d : d[i].key = k].value

RECURSIVE SourceUris(_)
\* the two nested for loops appending image.sourceUri
SourceUris(scenes) ==
    IF scenes = <<>> THEN <<>>
    ELSE [j \in DOMAIN Head(scenes).images |->
             Head(scenes).images[j].sourceUri] \o SourceUris(Tail(scenes))

\* get_image_source_uris()
GetImageSourceUris(scenes) ==
    LET ordered_scene_ids == GetOrderedSceneIds(scenes)
        id_to_scene == IdToScene(scenes)
        keys == IterDict(ordered_scene_ids)
    IN  IF \E i \in DOMAIN keys : ~HasKey(id_to_scene, keys[i])
        THEN URaise("KeyError")
        ELSE UReturn(SourceUris([i \in DOMAIN keys |->
                                    GetItem(id_to_scene, keys[i])]))

UrisIdle == u_scenes = <<>> /\ u_pc = "off" /\ u_out = UNoOutcome

UrisInit == u_scenes \in ProjectScenes /\ u_pc = "call" /\ u_out = UNoOutcome

CallGetImageSourceUris ==
    /\ u_pc = "call"
    /\ u_pc' = "done"
    /\ u_out' = GetImageSourceUris(u_scenes)
    /\ UNCHANGED u_scenes

----------------------------------------------------------------------------
(* Two invocations, interleaved *)

\* bounds of the inputs of the interleaved invocations
MaxOverlapScenes == 2
MaxOverlapPages == 2

Invocations == {1, 2}

OtherInvocation(k) == 3 - k

\* Footprints and page contents of the interleaved invocations.
OverlapFootprints == {{1}, Cells}
OverlapPageItems == {<<>>} \cup {<<it>> : it \in {x \in Items : x.rev = 1}}

FillAoiCall(rs, aoi, dsid) ==
    [op |-> "fill_aoi", results |-> rs, aoi_polygon |-> aoi,
     datasource_id |-> dsid, endpoint |-> "none", dict_out |-> FALSE,
     pages |-> <<>>]

\* A collector call; `pages` is what the backend holds for it.
CollectorCall(ep, dout, pages) ==
    [op |-> "collect", results |-> <<>>, aoi_polygon |-> {},
     datasource_id |-> "none", endpoint |-> ep, dict_out |-> dout,
     pages |-> pages]

NoCall == FillAoiCall(<<>>, {}, "none")

FillAoiCalls ==
    {FillAoiCall([i \in 1..n |-> Scene(i, ds[i], fp[i])], aoi, dsid) :
        <<n, ds, fp>> \in
            UNION {{<<m, d, f>> : d \in [1..m -> {LANDSAT8, SENTINEL2}],
                                  f \in [1..m -> OverlapFootprints]} :
                   m \in 0..MaxOverlapScenes},
        aoi \in Aois, dsid \in {LANDSAT8}}

\* dict_out is an argument of API.projects only.
CollectorCalls ==
    {c \in {CollectorCall(ep, dout, pages) :
               ep \in ApiEndpoints, dout \in BOOLEAN,
               pages \in UNION {[1..n -> OverlapPageItems] :
                                n \in 1..MaxOverlapPages}} :
        c.dict_out => c.endpoint = "projects"}

\* The locals a call binds on entry: `scene_boundaries = []`,
\* `scene_ids = []`; `has_next = True`, `projects = []`, `page = 0`.
FreshLocals ==
    [scene_boundaries |-> <<>>, scene_ids |-> <<>>, acc |-> <<>>,
     page |-> 0, has_next |-> TRUE]

OneFrameForAll(k) == 1

\* The frame that holds the locals of invocation k: python binds the
\* locals of a call in a frame of that call, and the lists are created
\* by the call itself.
Frame(k) == k

\* The page the backend returns for request index p of a collector call.
PageOf(call, p) ==
    [field   |-> "results",
     items   |-> IF p < Len(call.pages) THEN call.pages[p + 1] ELSE <<>>,
     page    |-> p,
     hasNext |-> p < Len(call.pages) - 1]

StepResult(fr, pos, pc, out) ==
    [frame |-> fr, pos |-> pos, pc |-> pc, out |-> out]

\* One iteration of `for scene in results:` of fill_aoi on the locals fr,
\* or the final return once the scenes have run out.
FillAoiStep(call, pos, fr) ==
    IF pos >= Len(call.results)
    THEN StepResult(fr, pos, "done", ExhaustedResult(fr.scene_ids))
    ELSE LET sc == call.results[pos + 1]
         IN  IF DatasourceMismatch(sc, call.datasource_id)
             THEN StepResult(fr, pos, "raised", FillRaised("ValueError"))
             ELSE LET boundaries == Append(fr.scene_boundaries,
                                           Shape(sc.dataFootprint))
                      ids == Append(fr.scene_ids, sc.id)
                      aoi_coverage == CascadedUnion(boundaries)
                      fr2 == [fr EXCEPT !.scene_boundaries = boundaries,
                                        !.scene_ids = ids]
                  IN  IF Contains(aoi_coverage, call.aoi_polygon)
                      THEN StepResult(fr2, pos + 1, "done", FillList(ids))
                      ELSE StepResult(fr2, pos + 1, "loop", FillNoOutcome)

\* One iteration of `while has_next:` of an api.py collector on the
\* locals fr; the iteration that sees hasNext false also returns.
CollectorStep(call, pos, fr) ==
    LET resp == PageOf(call, fr.page)
        acc2 == fr.acc \o Collected(call.endpoint, resp)
        fr2 == [fr EXCEPT !.acc = acc2,
                          !.page = NextPage(fr.page, resp),
                          !.has_next = resp.hasNext]
    IN  IF resp.hasNext
        THEN StepResult(fr2, pos, "loop", NoOutcome)
        ELSE StepResult(fr2, pos, "done",
                        CollectorResult(call.endpoint, call.dict_out, acc2))

LoopStep(call, pos, fr) ==
    IF call.op = "fill_aoi" THEN FillAoiStep(call, pos, fr)
                            ELSE CollectorStep(call, pos, fr)

NoResult(call) == IF call.op = "fill_aoi" THEN FillNoOutcome ELSE NoOutcome

RECURSIVE RunFrom(_, _, _)
RunFrom(call, pos, fr) ==
    LET r == LoopStep(call, pos, fr)
    IN  IF r.pc = "loop" THEN RunFrom(call, r.pos, r.frame) ELSE r

\* What a call hands to its caller when nothing else runs between its
\* entry and its return.
RunAlone(call) == RunFrom(call, 0, FreshLocals).out

IsolationIdle ==
    /\ i_calls = [k \in Invocations |-> NoCall]
    /\ i_pc = [k \in Invocations |-> "off"]
    /\ i_pos = [k \in Invocations |-> 0]
    /\ i_frames = [f \in Invocations |-> FreshLocals]
    /\ i_out = [k \in Invocations |-> FillNoOutcome]
    /\ i_touched = [f \in Invocations |-> {}]
    /\ i_last = 0 /\ i_alternated = FALSE

\* Two calls have been made; neither has run its first statement.
IsolationInit ==
    /\ i_calls \in [Invocations -> FillAoiCalls \cup CollectorCalls]
    /\ i_pc = [k \in Invocations |-> "called"]
    /\ i_pos = [k \in Invocations |-> 0]
    /\ i_frames = [f \in Invocations |-> FreshLocals]
    /\ i_out = [k \in Invocations |-> NoResult(i_calls[k])]
    /\ i_touched = [f \in Invocations |-> {}]
    /\ i_last = 0 /\ i_alternated = FALSE

\* The bookkeeping of a step of invocation k.
Scheduled(k) ==
    /\ i_touched' = [i_touched EXCEPT ![Frame(k)] = @ \cup {k}]
    /\ i_last' = k
    /\ i_alternated' = (i_alternated \/
                        (i_last = OtherInvocation(k) /\ i_pc[k] # "called"))

\* Invocation k runs the statements before its loop: the empty lists, the
\* page index 0 and has_next = True.
EnterCall ==
    \E k \in Invocations :
        /\ i_pc[k] = "called"
        /\ i_pc' = [i_pc EXCEPT ![k] = "loop"]
        /\ i_frames' = [i_frames EXCEPT ![Frame(k)] = FreshLocals]
        /\ Scheduled(k)
        /\ UNCHANGED <<i_calls, i_pos, i_out>>

\* Invocation k runs one iteration of its loop, or its final return.
StepCall ==
    \E k \in Invocations :
        /\ i_pc[k] = "loop"
        /\ LET r == LoopStep(i_calls[k], i_pos[k], i_frames[Frame(k)])
           IN  /\ i_frames' = [i_frames EXCEPT ![Frame(k)] = r.frame]
               /\ i_pos' = [i_pos EXCEPT ![k] = r.pos]
               /\ i_pc' = [i_pc EXCEPT ![k] = r.pc]
               /\ i_out' = [i_out EXCEPT ![k] = r.out]
        /\ Scheduled(k)
        /\ UNCHANGED i_calls

----------------------------------------------------------------------------
(* Project.get_center *)

\* bound of the input
MaxRingLen == 3

\* Valid longitudes and latitudes, in degrees.
Longitudes == {-180, -10, 0, 10, 180}
Latitudes == {-90, 0, 45}

\* A coordinate pair [x, y] of GeoJSON: coord[0] is the longitude,
\* coord[1] the latitude.
Coords == Longitudes \X Latitudes

Rings == UNION {[1..n -> Coords] : n \in 0..MaxRingLen}

\* An interior ring some extents carry after the exterior one.
InteriorRing == <<<<180, -90>>>>

\* The extent of a project: a geometry dict that may lack 'coordinates',
\* hold an empty list, or hold a list of rings.
Extents ==
    {[has_coordinates |-> FALSE, coordinates |-> <<>>],
     [has_coordinates |-> TRUE, coordinates |-> <<>>]}
    \cup {[has_coordinates |-> TRUE, coordinates |-> <<r>>] : r \in Rings}
    \cup {[has_coordinates |-> TRUE, coordinates |-> <<r, InteriorRing>>] :
          r \in Rings}

\* get_center's results.  The two numbers of the tuple are kept exact, as
\* counts of half degrees: `(a + b) / 2.` of two whole degrees is
\* (a + b) half degrees.
GcReturn(first, second) ==
    [kind |-> "tuple", first |-> first, second |-> second, exc |-> "none"]
GcRaise(e) == [kind |-> "raise", first |-> 0, second |-> 0, exc |-> e]
GcNoOutcome == [kind |-> "none", first |-> 0, second |-> 0, exc |-> "none"]

\* `(u + v) / 2.`, in half degrees
HalfSum(u, v) == u + v

\* `coord[0] + (360 if coord[0] < 0 else 0)`
Shifted(x) == x + (IF x < 0 THEN 360 ELSE 0)

\* `if center[0] > 180: center[0] = center[0] - 360`, in half degrees
Wrapped180(h) == IF h > 2 * 180 THEN h - 2 * 360 ELSE h

\* Project.get_center: python's min and max of an empty ring raise
\* ValueError too.
GetCenter(ext) ==
    IF ~ext.has_coordinates \/ ext.coordinates = <<>>
    THEN GcRaise("ValueError")
    ELSE LET ring == ext.coordinates[1]
         IN  IF ring = <<>>
             THEN GcRaise("ValueError")
             ELSE LET xs == {Shifted(ring[i][1]) : i \in DOMAIN ring}
                      ys == {ring[i][2] : i \in DOMAIN ring}
                      x_min == SetMin(xs)
                      x_max == SetMax(xs)
                      y_min == SetMin(ys)
                      y_max == SetMax(ys)
                      center == <<HalfSum(y_min, y_max), HalfSum(x_min, x_max)>>
                  IN  GcReturn(Wrapped180(center[1]), center[2])

CenterIdle ==
    /\ extent = [has_coordinates |-> FALSE, coordinates |-> <<>>]
    /\ gc_pc = "off" /\ gc_out = GcNoOutcome

CenterInit == extent \in Extents /\ gc_pc = "call" /\ gc_out = GcNoOutcome

CallGetCenter ==
    /\ gc_pc = "call"
    /\ gc_pc' = "done"
    /\ gc_out' = GetCenter(extent)
    /\ UNCHANGED extent

----------------------------------------------------------------------------
(* Specifications *)

CollectNext ==
    \/ FetchPage /\ UNCHANGED
           <<fillVars, dateVars, sceneVars, getScenesVars, exportVars,
           thumbnailVars, apiVars, orderVars, notebookVars, urisVars,
           isolationVars, centerVars>>
    \/ FetchFails /\ UNCHANGED
           <<fillVars, dateVars, sceneVars, getScenesVars, exportVars,
           thumbnailVars, apiVars, orderVars, notebookVars, urisVars,
           isolationVars, centerVars>>

InitCollect ==
    CollectInit
        /\ FillIdle
        /\ DateIdle
        /\ SceneIdle
        /\ GetScenesIdle
        /\ ExportIdle
        /\ ThumbnailIdle
        /\ ApiIdle
        /\ OrderIdle
        /\ NotebookIdle
        /\ UrisIdle
        /\ IsolationIdle
        /\ CenterIdle

SpecCollect == InitCollect /\ [][CollectNext]_vars

FillNext ==
    \/ FillScene /\ UNCHANGED
           <<collectVars, dateVars, sceneVars, getScenesVars, exportVars,
           thumbnailVars, apiVars, orderVars, notebookVars, urisVars,
           isolationVars, centerVars>>
    \/ FillExhausted /\ UNCHANGED
           <<collectVars, dateVars, sceneVars, getScenesVars, exportVars,
           thumbnailVars, apiVars, orderVars, notebookVars, urisVars,
           isolationVars, centerVars>>

InitFill ==
    FillInit
        /\ CollectIdle
        /\ DateIdle
        /\ SceneIdle
        /\ GetScenesIdle
        /\ ExportIdle
        /\ ThumbnailIdle
        /\ ApiIdle
        /\ OrderIdle
        /\ NotebookIdle
        /\ UrisIdle
        /\ IsolationIdle
        /\ CenterIdle

SpecFill == InitFill /\ [][FillNext]_vars

DateNext ==
    \/ ConvertDate /\ UNCHANGED
           <<collectVars, fillVars, sceneVars, getScenesVars, exportVars,
           thumbnailVars, apiVars, orderVars, notebookVars, urisVars,
           isolationVars, centerVars>>

InitDate ==
    DateInit
        /\ CollectIdle
        /\ FillIdle
        /\ SceneIdle
        /\ GetScenesIdle
        /\ ExportIdle
        /\ ThumbnailIdle
        /\ ApiIdle
        /\ OrderIdle
        /\ NotebookIdle
        /\ UrisIdle
        /\ IsolationIdle
        /\ CenterIdle

SpecDate == InitDate /\ [][DateNext]_vars

SceneNext ==
    \/ CallGetCloudCover /\ UNCHANGED
           <<collectVars, fillVars, dateVars, getScenesVars, exportVars,
           thumbnailVars, apiVars, orderVars, notebookVars, urisVars,
           isolationVars, centerVars>>
    \/ CallGetTimestamp /\ UNCHANGED
           <<collectVars, fillVars, dateVars, getScenesVars, exportVars,
           thumbnailVars, apiVars, orderVars, notebookVars, urisVars,
           isolationVars, centerVars>>

InitScene ==
    SceneInit
        /\ CollectIdle
        /\ FillIdle
        /\ DateIdle
        /\ GetScenesIdle
        /\ ExportIdle
        /\ ThumbnailIdle
        /\ ApiIdle
        /\ OrderIdle
        /\ NotebookIdle
        /\ UrisIdle
        /\ IsolationIdle
        /\ CenterIdle

SpecScene == InitScene /\ [][SceneNext]_vars

GetScenesNext ==
    \/ CallGetScenes /\ UNCHANGED
           <<collectVars, fillVars, dateVars, sceneVars, exportVars,
           thumbnailVars, apiVars, orderVars, notebookVars, urisVars,
           isolationVars, centerVars>>

InitGetScenes ==
    GetScenesInit
        /\ CollectIdle
        /\ FillIdle
        /\ DateIdle
        /\ SceneIdle
        /\ ExportIdle
        /\ ThumbnailIdle
        /\ ApiIdle
        /\ OrderIdle
        /\ NotebookIdle
        /\ UrisIdle
        /\ IsolationIdle
        /\ CenterIdle

SpecGetScenes == InitGetScenes /\ [][GetScenesNext]_vars

ExportNext ==
    \/ CreateExport /\ UNCHANGED
           <<collectVars, fillVars, dateVars, sceneVars, getScenesVars,
           thumbnailVars, apiVars, orderVars, notebookVars, urisVars,
           isolationVars, centerVars>>

InitExport ==
    ExportInit
        /\ CollectIdle
        /\ FillIdle
        /\ DateIdle
        /\ SceneIdle
        /\ GetScenesIdle
        /\ ThumbnailIdle
        /\ ApiIdle
        /\ OrderIdle
        /\ NotebookIdle
        /\ UrisIdle
        /\ IsolationIdle
        /\ CenterIdle

SpecExport == InitExport /\ [][ExportNext]_vars

ThumbnailNext ==
    \/ GetThumbnail /\ UNCHANGED
           <<collectVars, fillVars, dateVars, sceneVars, getScenesVars,
           exportVars, apiVars, orderVars, notebookVars, urisVars,
           isolationVars, centerVars>>
    \/ GetThumbnailFails /\ UNCHANGED
           <<collectVars, fillVars, dateVars, sceneVars, getScenesVars,
           exportVars, apiVars, orderVars, notebookVars, urisVars,
           isolationVars, centerVars>>

InitThumbnail ==
    ThumbnailInit
        /\ CollectIdle
        /\ FillIdle
        /\ DateIdle
        /\ SceneIdle
        /\ GetScenesIdle
        /\ ExportIdle
        /\ ApiIdle
        /\ OrderIdle
        /\ NotebookIdle
        /\ UrisIdle
        /\ IsolationIdle
        /\ CenterIdle

SpecThumbnail == InitThumbnail /\ [][ThumbnailNext]_vars

ApiNext ==
    \/ Construct /\ UNCHANGED
           <<collectVars, fillVars, dateVars, sceneVars, getScenesVars,
           exportVars, thumbnailVars, orderVars, notebookVars, urisVars,
           isolationVars, centerVars>>
    \/ ConstructLoadFails /\ UNCHANGED
           <<collectVars, fillVars, dateVars, sceneVars, getScenesVars,
           exportVars, thumbnailVars, orderVars, notebookVars, urisVars,
           isolationVars, centerVars>>

InitApi ==
    ApiInit
        /\ CollectIdle
        /\ FillIdle
        /\ DateIdle
        /\ SceneIdle
        /\ GetScenesIdle
        /\ ExportIdle
        /\ ThumbnailIdle
        /\ OrderIdle
        /\ NotebookIdle
        /\ UrisIdle
        /\ IsolationIdle
        /\ CenterIdle

SpecApi == InitApi /\ [][ApiNext]_vars

OrderNext ==
    \/ AddScenes /\ UNCHANGED
           <<collectVars, fillVars, dateVars, sceneVars, getScenesVars,
           exportVars, thumbnailVars, apiVars, notebookVars, urisVars,
           isolationVars, centerVars>>
    \/ SetSceneOrder /\ UNCHANGED
           <<collectVars, fillVars, dateVars, sceneVars, getScenesVars,
           exportVars, thumbnailVars, apiVars, notebookVars, urisVars,
           isolationVars, centerVars>>
    \/ SetSceneOrderFetchFails /\ UNCHANGED
           <<collectVars, fillVars, dateVars, sceneVars, getScenesVars,
           exportVars, thumbnailVars, apiVars, notebookVars, urisVars,
           isolationVars, centerVars>>

InitOrder ==
    OrderInit
        /\ CollectIdle
        /\ FillIdle
        /\ DateIdle
        /\ SceneIdle
        /\ GetScenesIdle
        /\ ExportIdle
        /\ ThumbnailIdle
        /\ ApiIdle
        /\ NotebookIdle
        /\ UrisIdle
        /\ IsolationIdle
        /\ CenterIdle

SpecOrder == InitOrder /\ [][OrderNext]_vars

NotebookNext ==
    \/ CallWrapped /\ UNCHANGED
           <<collectVars, fillVars, dateVars, sceneVars, getScenesVars,
           exportVars, thumbnailVars, apiVars, orderVars, urisVars,
           isolationVars, centerVars>>

InitNotebook ==
    NotebookInit
        /\ CollectIdle
        /\ FillIdle
        /\ DateIdle
        /\ SceneIdle
        /\ GetScenesIdle
        /\ ExportIdle
        /\ ThumbnailIdle
        /\ ApiIdle
        /\ OrderIdle
        /\ UrisIdle
        /\ IsolationIdle
        /\ CenterIdle

SpecNotebook == InitNotebook /\ [][NotebookNext]_vars

UrisNext ==
    \/ CallGetImageSourceUris /\ UNCHANGED
           <<collectVars, fillVars, dateVars, sceneVars, getScenesVars,
           exportVars, thumbnailVars, apiVars, orderVars, notebookVars,
           isolationVars, centerVars>>

InitUris ==
    UrisInit
        /\ CollectIdle
        /\ FillIdle
        /\ DateIdle
        /\ SceneIdle
        /\ GetScenesIdle
        /\ ExportIdle
        /\ ThumbnailIdle
        /\ ApiIdle
        /\ OrderIdle
        /\ NotebookIdle
        /\ IsolationIdle
        /\ CenterIdle

SpecUris == InitUris /\ [][UrisNext]_vars

IsolationNext ==
    \/ EnterCall /\ UNCHANGED
           <<collectVars, fillVars, dateVars, sceneVars, getScenesVars,
           exportVars, thumbnailVars, apiVars, orderVars, notebookVars,
           urisVars, centerVars>>
    \/ StepCall /\ UNCHANGED
           <<collectVars, fillVars, dateVars, sceneVars, getScenesVars,
           exportVars, thumbnailVars, apiVars, orderVars, notebookVars,
           urisVars, centerVars>>

InitIsolation ==
    IsolationInit
        /\ CollectIdle
        /\ FillIdle
        /\ DateIdle
        /\ SceneIdle
        /\ GetScenesIdle
        /\ ExportIdle
        /\ ThumbnailIdle
        /\ ApiIdle
        /\ OrderIdle
        /\ NotebookIdle
        /\ UrisIdle
        /\ CenterIdle

SpecIsolation == InitIsolation /\ [][IsolationNext]_vars

CenterNext ==
    \/ CallGetCenter /\ UNCHANGED
           <<collectVars, fillVars, dateVars, sceneVars, getScenesVars,
           exportVars, thumbnailVars, apiVars, orderVars, notebookVars,
           urisVars, isolationVars>>

InitCenter ==
    CenterInit
        /\ CollectIdle
        /\ FillIdle
        /\ DateIdle
        /\ SceneIdle
        /\ GetScenesIdle
        /\ ExportIdle
        /\ ThumbnailIdle
        /\ ApiIdle
        /\ OrderIdle
        /\ NotebookIdle
        /\ UrisIdle
        /\ IsolationIdle

SpecCenter == InitCenter /\ [][CenterNext]_vars

----------------------------------------------------------------------------
(* Claims about paginated collection, checked under SpecCollect *)

\* The records behind what the collector returned, in iteration order.
ResultElements(ep, out) ==
    CASE out.kind = "dict" ->
           [i \in DOMAIN out.map |-> RawOf(out.map[i].value)]
      [] out.kind = "list" /\ ep \in ApiEndpoints ->
           [i \in DOMAIN out.items |-> RawOf(out.items[i])]
      [] OTHER -> out.items

\* The collector has returned and every page reported the index it was
\* asked for: the backend's nPages pages were served in index order, with
\* hasNext false on the last one only.
ServedInOrder == c_pc = "done" /\ ~skewed

IdsOf(xs) == {xs[i].id : i \in DOMAIN xs}

DistinctIds(xs) == \A i, j \in DOMAIN xs : xs[i].id = xs[j].id => i = j

\* C1 as stated: for N >= 1 pages served in index order, every collector
\* returns exactly the concatenation of the pages' items, in server order
\* and without dedup or loss, after exactly N fetches.
C1_ConcatenationAllCollectors ==
    ServedInOrder =>
        /\ ResultElements(endpoint, c_out) = served
        /\ fetches = nPages

\* C1 (amended): for N >= 1 pages served in index order every collector
\* performs exactly N fetches; API.map_tokens, API.analyses, API.exports,
\* Project.get_scenes, Project.get_annotations and API.projects with
\* dict_out false return the list that is exactly the concatenation of the
\* pages' items in server order; API.projects with dict_out true (its
\* default) returns an id-keyed dict holding, for every id served, one
\* entry whose value is the last item served with that id, which is the
\* concatenation whenever the served ids are pairwise distinct.
C1_Concatenation ==
    ServedInOrder =>
        /\ fetches = nPages
        /\ c_out.kind = (IF endpoint = "projects" /\ dict_out THEN "dict"
                                                              ELSE "list")
        /\ c_out.kind = "list" => ResultElements(endpoint, c_out) = served
        /\ c_out.kind = "dict" =>
             /\ {c_out.map[i].key : i \in DOMAIN c_out.map} = IdsOf(served)
             /\ \A i, j \in DOMAIN c_out.map :
                    c_out.map[i].key = c_out.map[j].key => i = j
             /\ \A i \in DOMAIN c_out.map :
                    LET k == c_out.map[i].key
                        last == SetMax({n \in DOMAIN served : served[n].id = k})
                    IN  /\ c_out.map[i].value.cls = "Project"
                        /\ RawOf(c_out.map[i].value) = served[last]
             /\ DistinctIds(served) =>
                    ResultElements(endpoint, c_out) = served

\* Three pages of two items each, collected into the id-keyed dict, with
\* an id served twice.
C1_Witness ==
    /\ ServedInOrder /\ nPages = 3 /\ fetches = 3 /\ Len(served) = 6
    /\ endpoint = "projects" /\ dict_out /\ ~DistinctIds(served)
    /\ c_out.kind = "dict"

\* C10: a page fetch that fails on page k ends the collection: the
\* collector raises that very exception, the failing fetch is its last
\* (page k is not requested again, page k+1 never), and nothing collected
\* so far is returned.
C10_FailurePropagates ==
    failedAt # 0 =>
        /\ c_pc = "raised"
        /\ failure \in Failures
        /\ c_out = Raised(failure)
        /\ fetches = failedAt /\ Len(requested) = failedAt
        /\ \A i \in 1..(failedAt - 1) : requested[i] # requested[failedAt]

\* The third fetch failed after two pages' items had been accumulated.
C10_Witness ==
    /\ failedAt = 3 /\ c_pc = "raised" /\ Len(acc) = 4 /\ c_out.kind = "raise"

\* C17: the first fetch requests page 0 and every later fetch requests
\* the index the previously returned page reported, plus one; the
\* collector goes on exactly while the last returned page has hasNext true
\* and stops at the first page with hasNext false; when every page reports
\* the index it was asked for, the indices requested are 0, 1, 2, ...,
\* strictly increasing and none requested twice.
C17_PageIndexAdvance ==
    /\ requested # <<>> => requested[1] = 0
    /\ \A i \in 2..Len(requested) : requested[i] = reported[i - 1].page + 1
    /\ (c_pc = "loop" /\ fetches > 0) =>
           page = reported[Len(reported)].page + 1
    /\ \A i \in 1..(Len(reported) - 1) : reported[i].hasNext
    /\ c_pc = "loop" => \A i \in DOMAIN reported : reported[i].hasNext
    /\ c_pc = "done" =>
           /\ reported # <<>> /\ ~reported[Len(reported)].hasNext
           /\ Len(requested) = Len(reported)
    /\ ~skewed => requested = [i \in 1..Len(requested) |-> i - 1]

\* The backend reported index 1 for the page requested as 0, and the
\* second fetch asked for page 2.
C17_Witness ==
    /\ c_pc = "done" /\ skewed /\ Len(requested) = 2
    /\ requested[1] = 0 /\ reported[1].page = 1 /\ requested[2] = 2

----------------------------------------------------------------------------
(* Claims about fill_aoi, checked under SpecFill *)

FillEnded == f_pc \in {"done", "raised"}

\* The union of the footprints of the first n input scenes covers the AOI.
PrefixCovers(n) ==
    /\ aoi_polygon # {}
    /\ aoi_polygon \subseteq
           UNION {results[i].dataFootprint.coordinates : i \in 1..n}

PrefixIds(n) == [i \in 1..n |-> results[i].id]

\* The positions of the input scenes of another datasource.
Mismatching == {i \in DOMAIN results : results[i].datasource.id # datasource_id}

\* C2: a returned id list is the ids of the shortest prefix of the input
\* whose footprint union contains the AOI, in input order.
C2_ShortestCoveringPrefix ==
    f_out.kind = "list" =>
        \E n \in 1..Len(results) :
            /\ f_out.ids = PrefixIds(n)
            /\ PrefixCovers(n)
            /\ \A m \in 0..(n - 1) : ~PrefixCovers(m)

\* Four single-quadrant scenes and the whole square as AOI: all four ids,
\* returned once the fourth scene is consumed.
C2_Witness ==
    /\ f_pc = "done" /\ f_out.kind = "list" /\ f_i = 4
    /\ aoi_polygon = Cells
    /\ \A i \in DOMAIN results :
           Cardinality(results[i].dataFootprint.coordinates) = 1
    /\ f_out.ids = <<SceneIdAt(1), SceneIdAt(2), SceneIdAt(3), SceneIdAt(4)>>

\* C3: when no prefix of the input (the empty input included) covers the
\* AOI and no scene mismatches, fill_aoi returns the insufficient-imagery
\* result, a str, which is no list of scene ids.
C3_Exhaustion ==
    /\ (FillEnded /\ Mismatching = {}
            /\ \A n \in 0..Len(results) : ~PrefixCovers(n))
        => (f_out = InsufficientImagery /\ f_out.kind = "str")
    /\ f_out.kind = "list" => f_out # InsufficientImagery
    /\ \A n \in 0..Len(results) : FillList(PrefixIds(n)) # InsufficientImagery

\* Three quadrants of the square do not cover it.
C3_Witness ==
    /\ f_pc = "done" /\ f_out = InsufficientImagery
    /\ Len(results) = 3 /\ f_i = 3 /\ aoi_polygon = Cells
    /\ UNION {results[i].dataFootprint.coordinates : i \in 1..3} = {1, 2, 3}

\* C4 as stated: a scene list that contains a scene of another datasource
\* makes fill_aoi raise the validation error before any union is computed.
C4_AnyMismatchRaisesFirst ==
    (FillEnded /\ Mismatching # {}) =>
        (f_out.kind = "raise" /\ unions = 0)

\* C4 (amended): fill_aoi raises the validation error exactly when its
\* loop reaches the first scene of another datasource, that is when no
\* prefix of the scenes before it covers the AOI; it raises before that
\* scene's footprint enters any union, so only the k-1 unions of the scenes
\* before a mismatch at position k have been computed (none when the first
\* scene mismatches).  When a prefix before the mismatch covers the AOI,
\* fill_aoi returns that prefix's ids.
C4_MismatchRaisesWhenReached ==
    FillEnded =>
        LET reached == /\ Mismatching # {}
                       /\ \A m \in 0..(SetMin(Mismatching) - 1) :
                              ~PrefixCovers(m)
        IN  /\ (f_out.kind = "raise") = reached
            /\ f_out.kind = "raise" =>
                 LET k == SetMin(Mismatching)
                 IN  /\ f_out = FillRaised("ValueError")
                     /\ unions = k - 1
                     /\ Len(scene_boundaries) = k - 1
                     /\ scene_ids = PrefixIds(k - 1)

\* The third scene is of another datasource and is reached.
C4_Witness ==
    /\ f_pc = "raised" /\ unions = 2 /\ Len(results) = 4
    /\ Mismatching = {3}

\* C18: on reaching a scene of another datasource fill_aoi fails at once
\* with the validation error: that scene's footprint and id are not
\* appended and no later scene is examined.  A mismatching scene is never
\* skipped: the scenes consumed are always a prefix of the input, all of
\* the expected datasource, so every id of a returned list belongs to a
\* scene of the expected datasource.
C18_StrictPrecondition ==
    /\ scene_ids = PrefixIds(f_i) /\ Len(scene_boundaries) = f_i
    /\ \A i \in 1..f_i : results[i].datasource.id = datasource_id
    /\ f_pc = "raised" =>
          /\ f_out = FillRaised("ValueError")
          /\ f_i < Len(results)
          /\ results[f_i + 1].datasource.id # datasource_id
    /\ (f_pc = "loop" /\ f_i < Len(results) /\ f_out.kind = "none"
          /\ results[f_i + 1].datasource.id # datasource_id) =>
              ~ENABLED (FillScene /\ f_pc' # "raised")
    /\ f_out.kind = "list" =>
          \A j \in DOMAIN f_out.ids :
              \E i \in DOMAIN results :
                  /\ results[i].id = f_out.ids[j]
                  /\ results[i].datasource.id = datasource_id

\* The second of three scenes mismatches: the loop stopped there, having
\* appended the first scene only.
C18_Witness ==
    /\ f_pc = "raised" /\ Len(results) = 3 /\ Mismatching = {2}
    /\ f_i = 1 /\ Len(scene_ids) = 1

----------------------------------------------------------------------------
(* Claims about the metadata helpers, checked under SpecScene and SpecDate *)

\* C5: for a scene whose datasource id is none of the four known ids,
\* get_cloud_cover and get_timestamp return None and do not raise, whatever
\* metadata fields and name the scene carries.
C5_UnknownDatasourceIsNone ==
    (m_op # "none" /\ AsDict(scene).datasource.id \notin KnownDatasources)
        => m_out = NoneValue

\* get_timestamp on a scene of an unknown datasource with no metadata
\* fields and a name without a dot.
C5_Witness ==
    /\ m_op = "get_timestamp" /\ m_out = NoneValue
    /\ scene.fields.datasource.id \in OtherDatasources
    /\ DOMAIN scene.fields.sceneMetadata = {}
    /\ scene.fields.name = <<"L", "C", "8">>

RECURSIVE DayOfYear(_, _, _)
\* The day of the year of the calendar date y-m-d.
DayOfYear(y, m, d) ==
    IF m = 1 THEN d ELSE DaysInMonth(y, m - 1) + DayOfYear(y, m - 1, d)

MidnightZ == <<"T", "0", "0", ":", "0", "0", ":", "0", "0", ".", "0", "0", "0", "Z">>

\* An ISO-8601 timestamp of calendar day cal, ending in .000Z.
IsIsoOf(out, cal) ==
    /\ out.kind = "str"
    /\ Len(out.chars) = 24
    /\ SubSeq(out.chars, 20, 24) = <<".", "0", "0", "0", "Z">>
    /\ out.chars = cal \o MidnightZ

\* C6: convert_date_isoformat maps every valid ordinal date YYYYDDD and
\* every valid calendar date YYYY-MM-DD to the ISO-8601 timestamp of that
\* day ending in .000Z, and an ordinal and a calendar string of the same
\* day to the same output.
C6_Normalization ==
    d_pc = "done" =>
        \A y \in {yy \in Years : Len(datestring) >= 4
                                    /\ SubSeq(datestring, 1, 4) = Pad(yy, 4)},
           m \in 1..12 :
            \A d \in 1..DaysInMonth(y, m) :
                LET cal == CalendarString(y, m, d)
                    ord == OrdinalString(y, DayOfYear(y, m, d))
                IN  /\ datestring = cal =>
                          /\ IsIsoOf(d_out, cal)
                          /\ d_out = ConvertDateIsoformat(ord)
                    /\ datestring = ord =>
                          /\ IsIsoOf(d_out, cal)
                          /\ d_out = ConvertDateIsoformat(cal)

\* "2016123" has been converted, to the timestamp of 2016-05-02.
C6_Witness ==
    /\ d_pc = "done"
    /\ datestring = <<"2", "0", "1", "6", "1", "2", "3">>
    /\ d_out.kind = "str"
    /\ d_out.chars = <<"2", "0", "1", "6", "-", "0", "5", "-", "0", "2">>
                         \o MidnightZ

\* The string get_timestamp reads the date of a scene from: acquisitionDate
\* for Landsat 8, timeStamp for Sentinel-2, the second dot-separated piece
\* of the name without its first character for MODIS.
HasDateField(sc) ==
    LET br == TimestampBranch(sc.fields.datasource.id)
    IN  CASE br = "landsat8" -> "acquisitionDate" \in DOMAIN sc.fields.sceneMetadata
          [] br = "sentinel2" -> "timeStamp" \in DOMAIN sc.fields.sceneMetadata
          [] br = "modis" -> Len(Split(sc.fields.name, ".")) >= 2
          [] OTHER -> FALSE

DateField(sc) ==
    LET br == TimestampBranch(sc.fields.datasource.id)
    IN  CASE br = "landsat8" -> sc.fields.sceneMetadata["acquisitionDate"].chars
          [] br = "sentinel2" -> sc.fields.sceneMetadata["timeStamp"].chars
          [] OTHER -> Tail(Split(sc.fields.name, ".")[2])

OddLength(cs) == Len(cs) \notin {7, 10}

\* C19 as stated: for a known datasource whose date field has a length
\* other than 7 and 10, get_timestamp raises and returns no timestamp.
C19_KnownDatasourceOddLengthRaises ==
    (m_op = "get_timestamp" /\ HasDateField(scene)
        /\ OddLength(DateField(scene))) =>
            m_out.kind = "raise"

\* C19 (amended): for a date string of a length other than 7 and 10
\* convert_date_isoformat raises (UnboundLocalError) and returns no value;
\* so get_timestamp raises, and returns no timestamp, for a Landsat 8 or
\* MODIS scene whose date field has such a length.  For a Sentinel-2 scene
\* get_timestamp returns the timeStamp field as it is, whatever its length.
C19_OddLengthRaises ==
    (m_op = "get_timestamp" /\ HasDateField(scene)) =>
        LET br == TimestampBranch(scene.fields.datasource.id)
            field == DateField(scene)
        IN  /\ (br \in {"landsat8", "modis"} /\ OddLength(field)) =>
                  /\ ConvertDateIsoformat(field) = Raises("UnboundLocalError")
                  /\ m_out = Raises("UnboundLocalError")
            /\ br = "sentinel2" => m_out = StrValue(field)

\* A Landsat 8 scene with an acquisitionDate of five characters.
C19_Witness ==
    /\ m_op = "get_timestamp" /\ scene.fields.datasource.id = LANDSAT8
    /\ HasDateField(scene) /\ Len(DateField(scene)) = 5
    /\ m_out.kind = "raise"

----------------------------------------------------------------------------
(* Claims about get_scenes, checked under SpecGetScenes *)

\* An argument counts as supplied when python takes it as true: None and
\* the empty string or list are missing.
Supplied(v) == Truthy(v)

\* C7: exactly one of shape_id and bbox must be supplied: with both
\* missing or both present get_scenes raises the validation error
\* (ValueError in both cases) and sends no request to the scenes endpoint;
\* with exactly one supplied it raises no validation error and sends the
\* request.
C7_ExactlyOneOfShapeAndBbox ==
    g_pc = "done" =>
        IF Supplied(g_args.shape_id) = Supplied(g_args.bbox)
        THEN /\ g_out.kind = "raise" /\ g_out.exc = "ValueError"
             /\ g_request = <<>>
        ELSE /\ ~(g_out.kind = "raise" /\ g_out.exc = "ValueError")
             /\ Len(g_request) = 1

\* Both a shape id and a list of bounds were passed.
C7_Witness ==
    /\ g_pc = "done"
    /\ g_args.shape_id.chars # <<>> /\ g_args.bbox = PyList(BoxBounds)
    /\ g_out.kind = "raise" /\ g_request = <<>>

\* The comma-joined bounds of a bbox argument in one of its documented
\* forms: the string itself, the joined items of a list, the joined bounds
\* of a geometry.
JoinedBounds(bbox) ==
    IF bbox.type = "str" THEN bbox ELSE CommaJoin(PyList(bbox.items))

\* C16: a call with a bbox (a comma-separated string, a sequence of four
\* bounds or an object with bounds) and no shape_id sends a request whose
\* bbox parameter is the comma-joined bounds; a call with a shape_id sends
\* a request with the shape parameter and no bbox.
C16_BboxMarshaled ==
    (g_pc = "done" /\ g_request # <<>>) =>
        LET params == g_request[1]
        IN  /\ (Supplied(g_args.bbox) /\ ~Supplied(g_args.shape_id)) =>
                  /\ "bbox" \in DOMAIN params
                  /\ params["bbox"] = JoinedBounds(g_args.bbox)
            /\ Supplied(g_args.shape_id) =>
                  /\ "shape" \in DOMAIN params
                  /\ params["shape"] = g_args.shape_id
                  /\ "bbox" \notin DOMAIN params

----------------------------------------------------------------------------
(* Claims about create_export, checked under SpecExport *)

RECURSIVE NestingDepth(_)
\* The nesting depth of a structure: 0 for a number, 1 for an empty list.
NestingDepth(t) ==
    IF t.kind # "list" THEN 0
    ELSE IF t.items = <<>> THEN 1
    ELSE 1 + SetMax({NestingDepth(t.items[i]) : i \in DOMAIN t.items})

\* C8: every export body posted by create_export has exportStatus
\* NOTEXPORTED and a mask that is null, when no coordinates were given, or
\* a MultiPolygon whose coordinates have nesting depth exactly 4: the
\* coordinates passed when their depth is 4, and those coordinates inside
\* one more list when their depth is 3.
C8_ExportBody ==
    \A i \in DOMAIN e_posted :
        LET body == e_posted[i]
            mask == body.exportOptions.mask
        IN  /\ body.exportStatus = "NOTEXPORTED"
            /\ IF ~HasCoordinates(coordinates) THEN mask = NoMask
               ELSE /\ mask.type = "MultiPolygon"
                    /\ NestingDepth(mask.coordinates) = 4
                    /\ NestingDepth(coordinates) \in {3, 4}
                    /\ NestingDepth(coordinates) = 4 =>
                           mask.coordinates = coordinates
                    /\ NestingDepth(coordinates) = 3 =>
                           mask.coordinates = List(<<coordinates>>)

\* A single polygon (depth 3) was posted as a MultiPolygon.
C8_Witness ==
    /\ e_pc = "done" /\ Len(e_posted) = 1
    /\ coordinates = Wrapped(List(<<Num, Num>>), 2)
    /\ e_posted[1].exportOptions.mask = Mask(Wrapped(List(<<Num, Num>>), 3))

\* C9: non-empty coordinates of a nesting depth other than 3 and 4 make
\* create_export raise the validation error, and no export body is posted.
C9_BadDepthRaises ==
    (e_pc = "done" /\ HasCoordinates(coordinates)
                   /\ NestingDepth(coordinates) \notin {3, 4}) =>
        /\ e_out.kind = "raise" /\ e_out.exc = "ValueError"
        /\ e_posted = <<>>

\* Coordinates of depth 5 were refused.
C9_Witness ==
    /\ e_pc = "done" /\ NestingDepth(coordinates) = 5
    /\ e_out = GsRaise("ValueError", "Coordinates do have correct dimmension")
    /\ e_posted = <<>>

----------------------------------------------------------------------------
(* Claims about get_thumbnail, checked under SpecThumbnail *)

Success(status) == status >= 200 /\ status < 300

\* C11 as stated: every response of get_thumbnail with a status outside
\* 2xx, gateway timeout included, surfaces as the HTTP error of that
\* response, and the request is issued exactly once.
C11_EveryNon2xxIsHttpError ==
    (t_pc = "done" /\ t_status # 0 /\ ~Success(t_status)) =>
        /\ t_out = TRaise("HTTPError", t_status)
        /\ Len(t_sent) = 1

\* C11 (amended): get_thumbnail (and geotiff and png through it) issues
\* its request exactly once, whatever the outcome.  A 4xx or 5xx status
\* other than 504 surfaces as the HTTPError of raise_for_status; status
\* 504 is raised as GatewayTimeoutException instead; a failure of the
\* request itself propagates as it is; with any other status (2xx, and
\* 1xx or 3xx as well) the response is returned.
C11_ThumbnailFailures ==
    t_pc = "done" =>
        /\ Len(t_sent) = 1
        /\ t_status = 0 => t_out = TRaise("ConnectionError", 0)
        /\ t_status = 504 => t_out = TRaise("GatewayTimeoutException", 504)
        /\ (t_status >= 400 /\ t_status < 600 /\ t_status # 504) =>
               t_out = TRaise("HTTPError", t_status)
        /\ (t_status # 0 /\ t_status < 400) =>
               /\ t_out.kind = "return" /\ t_out.status = t_status
               /\ t_out.value = (IF t_call.method = "get_thumbnail"
                                 THEN "response" ELSE "content")

\* geotiff met a gateway timeout.
C11_Witness ==
    /\ t_pc = "done" /\ t_call.method = "geotiff" /\ t_status = 504
    /\ t_out.kind = "raise" /\ Len(t_sent) = 1

----------------------------------------------------------------------------
(* Claims about API.__init__, checked under SpecApi *)

\* C12: constructing API with neither a refresh_token nor an api_token
\* raises and sets no Authorization header; a construction that ends
\* normally leaves the session's Authorization header at 'Bearer ' followed
\* by the api token in use: the api_token passed whenever one is passed,
\* with no token exchange even when a refresh_token comes with it, and
\* otherwise the token obtained by exactly one exchange of the
\* refresh_token.
C12_CredentialSetup ==
    a_pc = "done" =>
        /\ (~Supplied(a_args.refresh_token) /\ ~Supplied(a_args.api_token)) =>
               /\ a_out.kind = "raise"
               /\ "Authorization" \notin DOMAIN a_headers
               /\ a_exchanges = <<>>
        /\ a_out.kind = "raise" => "Authorization" \notin DOMAIN a_headers
        /\ a_out.kind = "return" =>
               /\ "Authorization" \in DOMAIN a_headers
               /\ a_headers["Authorization"] = Bearer(a_api_token)
               /\ IF Supplied(a_args.api_token)
                  THEN a_api_token = a_args.api_token /\ a_exchanges = <<>>
                  ELSE /\ a_exchanges = <<a_args.refresh_token>>
                       /\ a_api_token = a_obtained

\* Both tokens were passed: the api_token is the one in the header.
C12_Witness ==
    /\ a_pc = "done" /\ a_out.kind = "return"
    /\ Supplied(a_args.refresh_token) /\ Supplied(a_args.api_token)
    /\ a_headers["Authorization"] = <<"B", "e", "a", "r", "e", "r", " ", "a", "1">>
    /\ a_exchanges = <<>>

----------------------------------------------------------------------------
(* Claims about the scene order methods, checked under SpecOrder *)

\* sceneIDs lists every scene of the project exactly once and nothing else.
OneToOne(ids, proj_scenes) ==
    /\ SeqSet(ids) = proj_scenes
    /\ \A i, j \in DOMAIN ids : ids[i] = ids[j] => i = j

PutCalls == SelectSeq(o_calls, LAMBDA c : c.op = "put_projects_projectID_order")

\* The project's scenes were fetched: get_scenes() did not raise.
ScenesFetched ==
    ~(o_out = ORaise("ConnectionError") /\ PutCalls = <<>>)

\* C13: with the project's scenes fetched, set_scene_order raises
\* KeyError or ValueError whenever sceneIDs is no 1:1 match of the scenes
\* in the project (an id not of the project, an id twice, a scene of the
\* project missing) and then sends no order PUT; when sceneIDs matches
\* 1:1, exactly one PUT carrying sceneIDs in the order given is sent.
C13_OrderValidation ==
    (o_method = "set_scene_order" /\ o_pc = "done" /\ ScenesFetched) =>
        IF OneToOne(sceneIDs, p_scenes)
        THEN PutCalls = <<PutOrder(sceneIDs)>>
        ELSE /\ o_out.kind = "raise"
             /\ o_out.exc \in {"KeyError", "ValueError"}
             /\ PutCalls = <<>>
             /\ p_order = NoOrder

\* A scene of the project is missing from sceneIDs: ValueError, no PUT.
C13_Witness ==
    /\ o_method = "set_scene_order" /\ o_pc = "done"
    /\ p_scenes = {1, 2, 3} /\ sceneIDs = <<2, 1>>
    /\ o_out = ORaise("ValueError") /\ PutCalls = <<>>

PostCalls == SelectSeq(o_calls, LAMBDA c : c.op = "post_projects_projectID_scenes")

----------------------------------------------------------------------------
(* Claims about check_notebook, checked under SpecNotebook *)

\* C14: a function wrapped by check_notebook returns None, for any
\* positional and keyword arguments, when NOTEBOOK_SUPPORT is false, and
\* gives the wrapped function's own result when NOTEBOOK_SUPPORT is true;
\* so it is for add_to, compare, get_layer and get_map.
C14_NotebookGating ==
    n_pc = "done" =>
        IF NOTEBOOK_SUPPORT
        THEN n_out = OwnResult(n_call) /\ n_ran = 1
        ELSE n_out = NReturn("None") /\ n_ran = 0

\* Without notebook support f(1, 2, 3, foo='bar') returned None.
C14_Witness ==
    /\ n_pc = "done" /\ ~NOTEBOOK_SUPPORT
    /\ n_call.fn = "f_args_kwargs" /\ n_call.nargs = 3 /\ n_call.kw
    /\ n_out = NReturn("None")

----------------------------------------------------------------------------
(* Claims about get_image_source_uris, checked under SpecUris *)

\* The scenes carry the z-indices 0 .. n-1, each once.
ZIndexed(scenes) ==
    /\ \A i \in DOMAIN scenes : scenes[i].sceneOrder.type = "int"
    /\ {scenes[i].sceneOrder.n : i \in DOMAIN scenes} = 0..(Len(scenes) - 1)

\* The scenes in z-index order.
ByZIndex(scenes) ==
    [z \in 1..Len(scenes) |->
        scenes[CHOOSE i \in DOMAIN scenes : scenes[i].sceneOrder.n = z - 1]]

\* C15: get_image_source_uris returns the sourceUri of every image of
\* every scene of the project, the scenes taken in z-index (sceneOrder)
\* order and the images of a scene in their listed order.
C15_UrisByZIndex ==
    (u_pc = "done" /\ ZIndexed(u_scenes)) =>
        u_out = UReturn(SourceUris(ByZIndex(u_scenes)))

----------------------------------------------------------------------------
(* Claims about interleaved invocations, checked under SpecIsolation *)

----------------------------------------------------------------------------
(* Claims about get_center, checked under SpecCenter *)

\* The exterior ring of an extent that has one, and its latitudes.
ExteriorRing(ext) == ext.coordinates[1]

HasRing(ext) ==
    ext.has_coordinates /\ ext.coordinates # <<>> /\ ExteriorRing(ext) # <<>>

RingLatitudes(ext) ==
    {ExteriorRing(ext)[i][2] : i \in DOMAIN ExteriorRing(ext)}

\* C22: for an extent with a non-empty ring of valid longitude/latitude
\* pairs, negative longitudes included, get_center returns a pair
\* (latitude, longitude) whose latitude is the midpoint of the ring's
\* latitudes and whose longitude lies in [-180, 180]; an extent without
\* coordinates raises ValueError.  (The numbers are in half degrees.)
C22_CenterInRange ==
    gc_pc = "done" =>
        /\ HasRing(extent) =>
              /\ gc_out.kind = "tuple"
              /\ gc_out.first = SetMin(RingLatitudes(extent))
                                  + SetMax(RingLatitudes(extent))
              /\ gc_out.second >= -(2 * 180)
              /\ gc_out.second <= 2 * 180
        /\ (~extent.has_coordinates \/ extent.coordinates = <<>>) =>
              gc_out = GcRaise("ValueError")

====
